---- MODULE Spec2Model ----
(***************************************************************************)
(* ShopMate: the circuit breaker and with_retry                            *)
(* (src/src/core/circuit_breaker.py), the response cache                   *)
(* (src/src/core/response_cache.py), the experiment manager, the model     *)
(* router, the workflow graph, the session manager and the chat endpoints. *)
(*                                                                         *)
(* Spec       the breaker: call_sync, call_async (interleaved at its       *)
(*            awaits), the lazy state property, reset, and the clock.      *)
(* CacheSpec  the cache: get, set, invalidate, clear, and the clock.       *)
(* SemanticSpec, SemanticLongSpec  the cache in semantic mode.             *)
(* EvictSpec  one set on a cache filled up to its max_size.                *)
(* ABSpec     the experiment manager (src/src/core/ab_testing.py).         *)
(* TrafficSpec  the experiment manager with variants of weight 0.          *)
(* RouterSpec the model router (src/src/core/llm_router.py).               *)
(* GraphSpec  the workflow graph (src/src/graphs/customer_service_graph.py)*)
(* RetrySpec  one call of a function wrapped by with_retry.                *)
(* SessionSpec  the in-memory session manager                              *)
(*            (src/src/memory/session_manager.py).                         *)
(* ApiSpec    the chat and streaming endpoints (src/src/api).              *)
(***************************************************************************)
EXTENDS Integers, Sequences, FiniteSets, TLC

\* ---------------------------------------------------------------- bounds
MaxThreshold == 2      \* failure_threshold ranges over 1..MaxThreshold
MaxHalfOpen == 2       \* half_open_max_calls ranges over 1..MaxHalfOpen
RecoveryTimeout == 2   \* the recovery_timeout the breaker is constructed with
MaxTime == 3           \* the clock runs over 0..MaxTime
MaxCalls == 4          \* op is invoked at most MaxCalls times in a run
MaxSize == 2           \* the cache's max_size ranges over 1..MaxSize
DefaultTtl == 2        \* the ttl the cache is constructed with
MaxOps == 3            \* calls made to a cache in exact mode in a run
MaxSemanticOps == 2    \* calls made to a cache that may be in semantic mode in a run
MaxLongOps == 4        \* calls made to a cache in semantic mode in a long run
MaxRouterOps == 3      \* calls made to the router in a run
MaxRequests == 2       \* requests sent through the workflow graph in a run
MaxRetries == 3        \* max_retries ranges over 0..MaxRetries
MaxHistory == 2        \* max_history ranges over 0..MaxHistory
MaxSessionTtl == 2     \* the ttl of sessions ranges over 1..MaxSessionTtl
MaxSessionOps == 4     \* calls made to the session manager in a run
MaxApiOps == 2         \* requests made to the endpoints in a run
MaxEntries == 21       \* entries of the store a set finds in the eviction runs
MaxABOps == 2          \* calls made to the experiment manager in a run

VARIABLES
    failure_threshold,     \* CircuitBreaker.failure_threshold
    recovery_timeout,      \* CircuitBreaker.recovery_timeout
    half_open_max_calls,   \* CircuitBreaker.half_open_max_calls
    fallback,              \* TRUE iff CircuitBreaker.fallback is configured
    breaker,               \* [state, stats, half_open_calls]: _state, _stats, _half_open_calls
    lock,                  \* CircuitBreaker._lock: 0 when free, else the caller holding it
    pc,                    \* position of each caller inside call_async
    seen,                  \* each caller's local `state` (lines 165, 193)
    invoked,               \* whether the caller's current/last call invoked func
    result,                \* how the caller's last call ended
    now,                   \* time.time()
    op_calls,              \* number of invocations of func so far
    half_open_admitted,    \* calls admitted to func since Half-Open was last entered
    max_size,              \* ResponseCache.max_size
    cache_ttl,             \* ResponseCache.ttl
    enable_semantic,       \* ResponseCache.enable_semantic
    embeddings_available,  \* whether get_embeddings() of the collaborator succeeds
    embeddings_loaded,     \* TRUE iff ResponseCache._embeddings is not None
    exact_cache,           \* ResponseCache._exact_cache, in dict (insertion) order
    semantic_cache,        \* ResponseCache._semantic_cache
    cache_stats,           \* ResponseCache._stats
    next_id,               \* identity of the next CacheEntry object created
    last_get,              \* the last get: its query and what it returned (None for a miss)
    last_set,              \* the query and time of the last call if it was a set, else None
    ever_set,              \* the queries some set call has been made for
    set_since_clear,       \* the queries set since the last clear (or the start)
    ops,                   \* number of cache calls made so far
    ops_limit,             \* number of cache calls of the run
    experiments,           \* ABTestManager.experiments: name -> Experiment or NoExperiment
    results,               \* ABTestManager.results: the log of ExperimentResult records
    last_call,             \* the last call made to the manager and what it returned or raised
    ab_ops,                \* number of calls made to the manager so far
    ab_limit,              \* number of calls to the manager of the run
    llm_provider,          \* settings.llm_provider, the default provider
    api_keys,              \* provider -> whether its ModelConfig has an api_key
    active_provider,       \* LLMRouter._active_provider
    fallback_used,         \* LLMRouter._fallback_used
    last_router,           \* the last call made to the router and what it returned or raised
    router_ops,            \* number of calls made to the router so far
    router_limit,          \* number of calls to the router of the run
    g_pc,                  \* where the request is in the workflow graph
    graph_state,           \* the AgentState of the request: current_agent, agent_response
    classified,            \* the content of the classifier's response for the request
    handler_node,          \* the agent node that ran for the request, "" before it
    hops,                  \* supervisor and agent node executions of the request
    llm_calls,             \* invocations of the supervisor's LLM for the request
    graph_output,          \* what CustomerServiceGraph.invoke returned or raised
    requests,              \* number of requests started so far
    request_limit,         \* number of requests of the run
    max_retries,           \* with_retry's max_retries
    retry_delay,           \* with_retry's retry_delay
    exponential_backoff,   \* with_retry's exponential_backoff
    r_pc,                  \* where the call of the wrapper is
    attempt,               \* the loop variable of the wrapper
    invocations,           \* invocations of the wrapped function by the call
    delays,                \* the delays the wrapper has slept for, in order
    last_exception,        \* the invocation that raised last_exception, 0 for None
    retry_result,          \* what the call returned or raised, and from which invocation
    max_history,           \* InMemorySessionManager.max_history
    session_ttl,           \* InMemorySessionManager.ttl
    sessions,              \* InMemorySessionManager._sessions
    next_msg,              \* the content of the next message added
    last_session_call,     \* the last call made to the session manager and its result
    session_ops,           \* number of calls made to the session manager so far
    session_limit,         \* number of calls to the session manager of the run
    api_pc,                \* where the chat request being served is
    chat_session,          \* the session id of the chat request being served
    chat_response,         \* the response to the last chat request
    stream_sessions,       \* the _sessions of the session manager of stream.py
    stream_events,         \* the events sent for the last streaming request
    api_ops,               \* number of requests made so far
    api_limit              \* number of requests of the run

breakerVars == <<failure_threshold, recovery_timeout, half_open_max_calls, fallback,
                 breaker, lock, pc, seen, invoked, result, op_calls, half_open_admitted>>

cacheVars == <<max_size, cache_ttl, enable_semantic, embeddings_available,
               embeddings_loaded, exact_cache, semantic_cache, cache_stats, next_id,
               last_get, last_set, ever_set, set_since_clear, ops, ops_limit>>

abVars == <<experiments, results, last_call, ab_ops, ab_limit>>

routerVars == <<llm_provider, api_keys, active_provider, fallback_used, last_router,
                router_ops, router_limit>>

graphVars == <<g_pc, graph_state, classified, handler_node, hops, llm_calls,
               graph_output, requests, request_limit>>

retryVars == <<max_retries, retry_delay, exponential_backoff, r_pc, attempt,
               invocations, delays, last_exception, retry_result>>

sessionVars == <<max_history, session_ttl, sessions, next_msg, last_session_call,
                 session_ops, session_limit>>

apiVars == <<api_pc, chat_session, chat_response, stream_sessions, stream_events,
             api_ops, api_limit>>

svcVars == <<routerVars, graphVars, retryVars, sessionVars, apiVars>>

vars == <<breakerVars, cacheVars, abVars, svcVars, now>>

\* The concurrent callers of the breaker (one task per request)
Callers == {1, 2}

\* CircuitState
CLOSED == "closed"
OPEN == "open"
HALF_OPEN == "half_open"
CircuitState == {CLOSED, OPEN, HALF_OPEN}

\* CircuitBreakerStats() with its dataclass defaults
CircuitBreakerStats ==
    [total_calls |-> 0, success_count |-> 0, failure_count |-> 0,
     consecutive_failures |-> 0, last_failure_time |-> 0, state_changes |-> <<>>]

\* The breaker fields that CircuitBreaker.__init__ sets, which reset() sets again
NewBreaker == [state |-> CLOSED, stats |-> CircuitBreakerStats, half_open_calls |-> 0]

\* CircuitBreaker._transition_to at time t
transition_to(b, new_state, t) ==
    IF b.state # new_state
    THEN [b EXCEPT !.state = new_state,
                   !.stats.state_changes =
                       Append(@, [from |-> b.state, to |-> new_state, time |-> t]),
                   !.half_open_calls = IF new_state = HALF_OPEN THEN 0 ELSE @]
    ELSE b

\* Mutation of RecoveryElapsed: the timeout must be strictly exceeded
RecoveryElapsedStrict(b, rt, t) == t - b.stats.last_failure_time > rt

\* The recovery test of the state property
RecoveryElapsed(b, rt, t) == t - b.stats.last_failure_time >= rt

\* CircuitBreaker.state (property): the breaker after the lazy check at time t;
\* the value the property returns is the .state of the result
state_property(b, rt, t) ==
    IF b.state = OPEN /\ RecoveryElapsed(b, rt, t)
    THEN transition_to(b, HALF_OPEN, t)
    ELSE b

\* Mutation of HalfOpenDone: one more success is needed to close
HalfOpenDoneStrict(calls, homc) == calls > homc

\* The closing test of _record_success
HalfOpenDone(calls, homc) == calls >= homc

\* Mutation of record_success: the consecutive failures are not put back to 0
record_success_keeps_failures(b, homc, t) ==
    LET b1 == [b EXCEPT !.stats.total_calls = @ + 1,
                        !.stats.success_count = @ + 1]
    IN  IF b1.state = HALF_OPEN
        THEN LET b2 == [b1 EXCEPT !.half_open_calls = @ + 1]
             IN  IF HalfOpenDone(b2.half_open_calls, homc)
                 THEN transition_to(b2, CLOSED, t)
                 ELSE b2
        ELSE b1

\* CircuitBreaker._record_success at time t
record_success(b, homc, t) ==
    LET b1 == [b EXCEPT !.stats.total_calls = @ + 1,
                        !.stats.success_count = @ + 1,
                        !.stats.consecutive_failures = 0]
    IN  IF b1.state = HALF_OPEN
        THEN LET b2 == [b1 EXCEPT !.half_open_calls = @ + 1]
             IN  IF HalfOpenDone(b2.half_open_calls, homc)
                 THEN transition_to(b2, CLOSED, t)
                 ELSE b2
        ELSE b1

\* Mutation of ThresholdReached: the threshold must be exceeded to trip
ThresholdReachedStrict(failures, ft) == failures > ft

\* The tripping test of _record_failure
ThresholdReached(failures, ft) == failures >= ft

\* Mutation of record_failure: the failure is not counted in total_calls
record_failure_uncounted(b, ft, t) ==
    LET b1 == [b EXCEPT !.stats.failure_count = @ + 1,
                        !.stats.consecutive_failures = @ + 1,
                        !.stats.last_failure_time = t]
    IN  IF b1.state = CLOSED
        THEN IF ThresholdReached(b1.stats.consecutive_failures, ft)
             THEN transition_to(b1, OPEN, t)
             ELSE b1
        ELSE IF b1.state = HALF_OPEN
             THEN transition_to(b1, OPEN, t)
             ELSE b1

\* CircuitBreaker._record_failure at time t
record_failure(b, ft, t) ==
    LET b1 == [b EXCEPT !.stats.total_calls = @ + 1,
                        !.stats.failure_count = @ + 1,
                        !.stats.consecutive_failures = @ + 1,
                        !.stats.last_failure_time = t]
    IN  IF b1.state = CLOSED
        THEN IF ThresholdReached(b1.stats.consecutive_failures, ft)
             THEN transition_to(b1, OPEN, t)
             ELSE b1
        ELSE IF b1.state = HALF_OPEN
             THEN transition_to(b1, OPEN, t)
             ELSE b1

\* How a short-circuited call ends (lines 169-171, 197-199)
ShortCircuitResult(fb) == IF fb THEN "fallback" ELSE "CircuitOpenError"

\* Mutation of FailureResult: the exception is re-raised, fallback or not
FailureResultRaises(fb) == "error"

\* How a call whose func raised ends (lines 187-189, 207-209)
FailureResult(fb) == IF fb THEN "fallback" ELSE "error"

\* Calls admitted to func since Half-Open was last entered, after a state check
\* that took the breaker from b0 to b1 and (admit) let a call through
AdmittedAfter(b0, b1, admit, count) ==
    LET base == IF b0.state # HALF_OPEN /\ b1.state = HALF_OPEN THEN 0 ELSE count
    IN  IF admit /\ b1.state = HALF_OPEN THEN base + 1 ELSE base

\* A new call may start while the bound on invocations of func leaves room for it
CanStart ==
    op_calls + Cardinality({p \in Callers : pc[p] \in {"check", "op"}}) < MaxCalls

\* call_sync has no await: while a caller is inside it (between its state check
\* and the recording of the outcome) the event loop runs no other caller
NoSyncRunning == \A q \in Callers : pc[q] # "sync_op"

BreakerInit ==
    /\ failure_threshold \in 1..MaxThreshold
    /\ recovery_timeout = RecoveryTimeout
    /\ half_open_max_calls \in 1..MaxHalfOpen
    /\ fallback \in BOOLEAN
    /\ breaker = NewBreaker
    /\ lock = 0
    /\ pc = [p \in Callers |-> "idle"]
    /\ seen = [p \in Callers |-> CLOSED]
    /\ invoked = [p \in Callers |-> FALSE]
    /\ result = [p \in Callers |-> "none"]
    /\ op_calls = 0
    /\ half_open_admitted = 0

\* time.time() advances
Tick ==
    /\ now < MaxTime
    /\ now' = now + 1
    /\ UNCHANGED <<breakerVars, cacheVars, abVars, svcVars>>

\* A read of the state property from outside a protected call
StateQuery ==
    /\ NoSyncRunning
    /\ breaker' = state_property(breaker, recovery_timeout, now)
    /\ half_open_admitted' = AdmittedAfter(breaker, breaker', FALSE, half_open_admitted)
    /\ UNCHANGED <<failure_threshold, recovery_timeout, half_open_max_calls, fallback,
                   lock, pc, seen, invoked, result, op_calls, now, cacheVars, abVars, svcVars>>

\* call_sync lines 193-199: state = self.state; when it is Open the fallback
\* runs or CircuitOpenError is raised, else func is about to run
SyncCheck(p) ==
    /\ pc[p] = "idle"
    /\ NoSyncRunning
    /\ CanStart
    /\ breaker' = state_property(breaker, recovery_timeout, now)
    /\ seen' = [seen EXCEPT ![p] = breaker'.state]
    /\ invoked' = [invoked EXCEPT ![p] = FALSE]
    /\ half_open_admitted' =
           AdmittedAfter(breaker, breaker', breaker'.state # OPEN, half_open_admitted)
    /\ result' = [result EXCEPT ![p] =
                      IF breaker'.state = OPEN THEN ShortCircuitResult(fallback) ELSE "none"]
    /\ pc' = [pc EXCEPT ![p] = IF breaker'.state = OPEN THEN "idle" ELSE "sync_op"]
    /\ UNCHANGED <<failure_threshold, recovery_timeout, half_open_max_calls, fallback,
                   lock, op_calls, now, cacheVars, abVars, svcVars>>

\* call_sync lines 201-209: func runs and returns (ok) or raises, the outcome is
\* recorded, and the call returns or raises
SyncRun(p, ok) ==
    /\ pc[p] = "sync_op"
    /\ invoked' = [invoked EXCEPT ![p] = TRUE]
    /\ op_calls' = op_calls + 1
    /\ breaker' = IF ok THEN record_success(breaker, half_open_max_calls, now)
                  ELSE record_failure(breaker, failure_threshold, now)
    /\ result' = [result EXCEPT ![p] = IF ok THEN "ok" ELSE FailureResult(fallback)]
    /\ pc' = [pc EXCEPT ![p] = "idle"]
    /\ UNCHANGED <<failure_threshold, recovery_timeout, half_open_max_calls, fallback,
                   lock, seen, half_open_admitted, now, cacheVars, abVars, svcVars>>

\* call_async line 164: caller p takes the lock for the state check
AsyncEnter(p) ==
    /\ NoSyncRunning
    /\ pc[p] = "idle"
    /\ CanStart
    /\ lock = 0
    /\ lock' = p
    /\ pc' = [pc EXCEPT ![p] = "check"]
    /\ invoked' = [invoked EXCEPT ![p] = FALSE]
    /\ result' = [result EXCEPT ![p] = "none"]
    /\ UNCHANGED <<failure_threshold, recovery_timeout, half_open_max_calls, fallback,
                   breaker, seen, op_calls, half_open_admitted, now, cacheVars, abVars, svcVars>>

\* Mutation of AfterCheck: func runs whatever the state check read
AfterCheckAlwaysOp(s) == "op"

\* Where call_async continues after the state check that read s (lines 167, 173)
AfterCheck(s) == IF s = OPEN THEN "short" ELSE "op"

\* Mutation of LockAfterCheck: the lock is kept for the rest of the call
LockAfterCheckKept(p) == p

\* Who holds the lock once the state check of caller p is over (end of line 165)
LockAfterCheck(p) == 0

\* call_async line 165: state = self.state under the lock, which is then released
AsyncCheck(p) ==
    /\ NoSyncRunning
    /\ pc[p] = "check"
    /\ lock = p
    /\ breaker' = state_property(breaker, recovery_timeout, now)
    /\ seen' = [seen EXCEPT ![p] = breaker'.state]
    /\ half_open_admitted' =
           AdmittedAfter(breaker, breaker', breaker'.state # OPEN, half_open_admitted)
    /\ lock' = LockAfterCheck(p)
    /\ pc' = [pc EXCEPT ![p] = AfterCheck(breaker'.state)]
    /\ UNCHANGED <<failure_threshold, recovery_timeout, half_open_max_calls, fallback,
                   invoked, result, op_calls, now, cacheVars, abVars, svcVars>>

\* call_async lines 167-171: the breaker was Open, the fallback runs or
\* CircuitOpenError is raised
AsyncShortCircuit(p) ==
    /\ NoSyncRunning
    /\ pc[p] = "short"
    /\ result' = [result EXCEPT ![p] = ShortCircuitResult(fallback)]
    /\ pc' = [pc EXCEPT ![p] = "idle"]
    /\ UNCHANGED <<failure_threshold, recovery_timeout, half_open_max_calls, fallback,
                   breaker, lock, seen, invoked, op_calls, half_open_admitted, now, cacheVars, abVars, svcVars>>

\* call_async lines 174-177: func runs (other callers run while it is awaited)
\* and returns (ok) or raises
AsyncOp(p, ok) ==
    /\ NoSyncRunning
    /\ pc[p] = "op"
    /\ invoked' = [invoked EXCEPT ![p] = TRUE]
    /\ op_calls' = op_calls + 1
    /\ pc' = [pc EXCEPT ![p] = IF ok THEN "ok_wait" ELSE "fail_wait"]
    /\ UNCHANGED <<failure_threshold, recovery_timeout, half_open_max_calls, fallback,
                   breaker, lock, seen, result, half_open_admitted, now, cacheVars, abVars, svcVars>>

\* call_async lines 179, 184: caller p takes the lock to record the outcome
AsyncLockRecord(p) ==
    /\ NoSyncRunning
    /\ pc[p] \in {"ok_wait", "fail_wait"}
    /\ lock = 0
    /\ lock' = p
    /\ pc' = [pc EXCEPT ![p] = IF pc[p] = "ok_wait" THEN "ok_rec" ELSE "fail_rec"]
    /\ UNCHANGED <<failure_threshold, recovery_timeout, half_open_max_calls, fallback,
                   breaker, seen, invoked, result, op_calls, half_open_admitted, now, cacheVars, abVars, svcVars>>

\* call_async lines 180-181: _record_success under the lock, then return result
AsyncRecordSuccess(p) ==
    /\ NoSyncRunning
    /\ pc[p] = "ok_rec"
    /\ lock = p
    /\ breaker' = record_success(breaker, half_open_max_calls, now)
    /\ lock' = 0
    /\ result' = [result EXCEPT ![p] = "ok"]
    /\ pc' = [pc EXCEPT ![p] = "idle"]
    /\ UNCHANGED <<failure_threshold, recovery_timeout, half_open_max_calls, fallback,
                   seen, invoked, op_calls, half_open_admitted, now, cacheVars, abVars, svcVars>>

\* call_async line 185: _record_failure under the lock
AsyncRecordFailure(p) ==
    /\ NoSyncRunning
    /\ pc[p] = "fail_rec"
    /\ lock = p
    /\ breaker' = record_failure(breaker, failure_threshold, now)
    /\ lock' = 0
    /\ pc' = [pc EXCEPT ![p] = "fail_out"]
    /\ UNCHANGED <<failure_threshold, recovery_timeout, half_open_max_calls, fallback,
                   seen, invoked, result, op_calls, half_open_admitted, now, cacheVars, abVars, svcVars>>

\* call_async lines 187-189: the fallback runs or the exception is re-raised
AsyncFailureOut(p) ==
    /\ NoSyncRunning
    /\ pc[p] = "fail_out"
    /\ result' = [result EXCEPT ![p] = FailureResult(fallback)]
    /\ pc' = [pc EXCEPT ![p] = "idle"]
    /\ UNCHANGED <<failure_threshold, recovery_timeout, half_open_max_calls, fallback,
                   breaker, lock, seen, invoked, op_calls, half_open_admitted, now, cacheVars, abVars, svcVars>>

\* Mutation of Reset: the state is forced to Closed, the statistics are kept
ResetStateOnly ==
    /\ NoSyncRunning
    /\ breaker' = [breaker EXCEPT !.state = CLOSED, !.half_open_calls = 0]
    /\ UNCHANGED <<failure_threshold, recovery_timeout, half_open_max_calls, fallback,
                   lock, pc, seen, invoked, result, op_calls, half_open_admitted, now, cacheVars, abVars, svcVars>>

\* CircuitBreaker.reset
Reset ==
    /\ NoSyncRunning
    /\ breaker' = NewBreaker
    /\ UNCHANGED <<failure_threshold, recovery_timeout, half_open_max_calls, fallback,
                   lock, pc, seen, invoked, result, op_calls, half_open_admitted, now, cacheVars, abVars, svcVars>>


\* ------------------------------------------------ the experiment manager

\* Experiment names: the three predefined ones and one that is not predefined
ExpNames == {"llm_provider", "prompt_version", "cache_enabled", "rollout"}

\* The experiments the calls of a run name
CallNames == {"llm_provider", "rollout"}

Sessions == {"s1", "s3"}

\* A float: a number in units of 1/10000, or nan
Num(n) == [nan |-> FALSE, val |-> n]

NaN == [nan |-> TRUE, val |-> 0]

\* 1.0 and the tolerance 0.01 of the weight check, in units of 1/10000
One == 10000

Tolerance == 100

\* x + y on floats
FAdd(x, y) == IF x.nan \/ y.nan THEN NaN ELSE Num(x.val + y.val)

\* x < y on floats: every comparison with nan is false
FLess(x, y) == ~x.nan /\ ~y.nan /\ x.val < y.val

\* A variants dict, in its insertion order: a sequence of [name, weight]
Variant(n, w) == [name |-> n, weight |-> w]

\* The variants dicts passed to create_experiment and update_traffic
WeightMappings ==
    { <<Variant("A", Num(5000)), Variant("B", Num(5000))>>,
      <<Variant("B", Num(5000)), Variant("A", Num(5000))>>,
      <<Variant("A", Num(3000)), Variant("B", Num(7000))>>,
      <<Variant("A", Num(5000)), Variant("B", Num(5100))>>,
      <<Variant("A", NaN), Variant("B", Num(5000))>>,
      <<>> }

Descriptions == {"trial"}

\* sum(variants.values())
RECURSIVE SumWeights(_, _)
SumWeights(variants, n) ==
    IF n = 0 THEN Num(0) ELSE FAdd(SumWeights(variants, n - 1), variants[n].weight)

total_weight(variants) == SumWeights(variants, Len(variants))

AbsDiff(a, b) == IF a >= b THEN a - b ELSE b - a

\* Mutation of SumVerdicts: a nan sum is rejected
SumVerdictsNanRejected(total) ==
    IF total.nan THEN {"reject"}
    ELSE IF AbsDiff(total.val, One) > Tolerance THEN {"reject"}
    ELSE IF AbsDiff(total.val, One) < Tolerance THEN {"accept"}
    ELSE {"accept", "reject"}

\* `abs(total_weight - 1.0) > 0.01` raises ValueError. With nan the comparison
\* is false. A sum exactly 0.01 away from 1.0 is rejected or not according to
\* the rounding of the doubles involved.
SumVerdicts(total) ==
    IF total.nan THEN {"accept"}
    ELSE IF AbsDiff(total.val, One) > Tolerance THEN {"reject"}
    ELSE IF AbsDiff(total.val, One) < Tolerance THEN {"accept"}
    ELSE {"accept", "reject"}

\* The value of experiments at a name that is not a key of the dict
NoExperiment == [present |-> FALSE]

Experiment(name, variants, description, t) ==
    [present |-> TRUE, name |-> name, variants |-> variants, enabled |-> TRUE,
     created_at |-> t, description |-> description]

\* int(md5(f"{experiment_name}:{session_id}").hexdigest(), 16) % 10000, for the
\* names and sessions above; the bucket is this number of 1/10000
Bucket(experiment_name, session_id) ==
    CASE experiment_name = "llm_provider" /\ session_id = "s1" -> 2921
      [] experiment_name = "llm_provider" /\ session_id = "s3" -> 8655
      [] experiment_name = "prompt_version" /\ session_id = "s1" -> 3278
      [] experiment_name = "prompt_version" /\ session_id = "s3" -> 5053
      [] experiment_name = "cache_enabled" /\ session_id = "s1" -> 9282
      [] experiment_name = "cache_enabled" /\ session_id = "s3" -> 9897
      [] experiment_name = "rollout" /\ session_id = "s1" -> 4672
      [] experiment_name = "rollout" /\ session_id = "s3" -> 6903
      [] experiment_name = "llm_provider" /\ session_id = "s398" -> 959
      [] experiment_name = "rollout" /\ session_id = "s398" -> 9961

\* Mutation of walk_variants: the bucket is not looked at, the first variant
\* with a positive cumulative weight is taken
RECURSIVE walk_variants_unbucketed(_, _, _, _)
walk_variants_unbucketed(variants, i, cumulative, bucket) ==
    IF i > Len(variants) THEN variants[Len(variants)].name
    ELSE LET c == FAdd(cumulative, variants[i].weight)
         IN  IF FLess(Num(0), c) THEN variants[i].name
             ELSE walk_variants_unbucketed(variants, i + 1, c, bucket)

\* The loop of get_variant, lines 167-174, from variant i on with the weights
\* before it accumulated in cumulative
RECURSIVE walk_variants(_, _, _, _)
walk_variants(variants, i, cumulative, bucket) ==
    IF i > Len(variants) THEN variants[Len(variants)].name
    ELSE LET c == FAdd(cumulative, variants[i].weight)
         IN  IF FLess(Num(bucket), c) THEN variants[i].name
             ELSE walk_variants(variants, i + 1, c, bucket)

\* Mutation of get_variant: an unknown experiment has no default variant and a
\* disabled one is bucketed like an enabled one
get_variant_always_bucketed(experiment_name, session_id) ==
    LET experiment == experiments[experiment_name]
    IN  IF ~experiment.present THEN "none"
        ELSE walk_variants(experiment.variants, 1, Num(0),
                           Bucket(experiment_name, session_id))

\* Mutation of get_variant: the variant alternates with the number of results
get_variant_by_load(experiment_name, session_id) ==
    LET experiment == experiments[experiment_name]
    IN  IF ~experiment.present THEN "default"
        ELSE experiment.variants[(Len(results) % Len(experiment.variants)) + 1].name

\* ABTestManager.get_variant
get_variant(experiment_name, session_id) ==
    LET experiment == experiments[experiment_name]
    IN  IF ~experiment.present THEN "default"
        ELSE IF ~experiment.enabled THEN experiment.variants[1].name
        ELSE walk_variants(experiment.variants, 1, Num(0),
                           Bucket(experiment_name, session_id))

\* A metric value: a number (int or float), or a value of another type
Number(n) == [num |-> TRUE, val |-> n]

Text == [num |-> FALSE, val |-> 0]

\* A metrics dict, in its insertion order: a sequence of [key, value]
Metric(k, v) == [key |-> k, value |-> v]

\* The metrics dicts passed to record_result
MetricMaps ==
    { <<Metric("latency", Number(2))>>,
      <<Metric("rating", Number(5))>>,
      <<Metric("latency", Number(4)), Metric("rating", Text)>> }

MetricKeys == {"latency", "rating"}

\* metrics.keys()
KeysOf(metrics) == {metrics[i].key : i \in 1..Len(metrics)}

\* isinstance(r.get(key), (int, float))
IsNumeric(metrics, key) ==
    \E i \in 1..Len(metrics) : metrics[i].key = key /\ metrics[i].value.num

\* r[key], for a key with a numeric value
ValueOf(metrics, key) ==
    LET i == CHOOSE i \in 1..Len(metrics) : metrics[i].key = key
    IN  metrics[i].value.val

\* variant_results[variant] of get_experiment_stats (lines 217-220), as the
\* result records whose metrics are grouped
results_of(experiment_name, variant) ==
    LET Match(r) == r.experiment_name = experiment_name /\ r.variant = variant
    IN  SelectSeq(results, Match)

\* The positions of the values list of line 240
NumericAt(rs, key) == {i \in 1..Len(rs) : IsNumeric(rs[i].metrics, key)}

RECURSIVE SumAt(_, _, _)
SumAt(rs, key, n) ==
    IF n = 0 THEN 0
    ELSE SumAt(rs, key, n - 1)
             + (IF n \in NumericAt(rs, key) THEN ValueOf(rs[n].metrics, key) ELSE 0)

\* round(sum(values) / len(values), 3), in thousandths
RoundedAvg(sum, n) == (2000 * sum + n) \div (2 * n)

\* The three entries key_avg, key_min, key_max of lines 242-244
key_stats(rs, key) ==
    LET at == NumericAt(rs, key)
        vals == {ValueOf(rs[i].metrics, key) : i \in at}
    IN  [avg |-> RoundedAvg(SumAt(rs, key, Len(rs)), Cardinality(at)),
         min |-> CHOOSE x \in vals : \A y \in vals : x <= y,
         max |-> CHOOSE x \in vals : \A y \in vals : x >= y]

\* Mutation of variant_stats: the count is the number of sessions with a result
variant_stats_by_session(rs) ==
    [count |-> Cardinality({rs[i].session_id : i \in 1..Len(rs)}),
     metrics |-> [key \in {k \in KeysOf(rs[1].metrics) : NumericAt(rs, k) # {}}
                      |-> key_stats(rs, key)]]

\* variant_stats of lines 234-244: the count, and the statistics of the keys of
\* the first result that have numeric values
variant_stats(rs) ==
    [count |-> Len(rs),
     metrics |-> [key \in {k \in KeysOf(rs[1].metrics) : NumericAt(rs, k) # {}}
                      |-> key_stats(rs, key)]]

\* ABTestManager.get_experiment_stats
get_experiment_stats(experiment_name) ==
    IF ~experiments[experiment_name].present THEN [error |-> TRUE]
    ELSE [error |-> FALSE,
          experiment |-> experiment_name,
          description |-> experiments[experiment_name].description,
          enabled |-> experiments[experiment_name].enabled,
          variants |->
              [v \in {results[i].variant :
                          i \in {j \in 1..Len(results) :
                                     results[j].experiment_name = experiment_name}}
                   |-> variant_stats(results_of(experiment_name, v))]]

\* ABTestManager.__init__ with _init_default_experiments
ABInit ==
    /\ experiments =
           [n \in ExpNames |->
               CASE n = "llm_provider" ->
                        Experiment(n, <<Variant("dashscope", Num(One)),
                                        Variant("openai", Num(0))>>, "providers", 0)
                 [] n = "prompt_version" ->
                        Experiment(n, <<Variant("v1", Num(One)),
                                        Variant("v2", Num(0))>>, "prompts", 0)
                 [] n = "cache_enabled" ->
                        Experiment(n, <<Variant("enabled", Num(One)),
                                        Variant("disabled", Num(0))>>, "cache", 0)
                 [] OTHER -> NoExperiment]
    /\ results = <<>>
    /\ last_call = [op |-> "init", name |-> "", session |-> "", outcome |-> ""]
    /\ ab_ops = 0

\* One manager, left alone, for the runs of the breaker and of the cache
ABIdle ==
    /\ ABInit
    /\ ab_limit = 0

\* ABTestManager.create_experiment(name, variants, description)
CreateExperiment(name, variants, description) ==
    /\ ab_ops < ab_limit
    /\ ab_ops' = ab_ops + 1
    /\ \E verdict \in SumVerdicts(total_weight(variants)) :
           IF verdict = "reject"
           THEN /\ experiments' = experiments
                /\ last_call' = [op |-> "create_experiment", name |-> name,
                                 session |-> "", outcome |-> "ValueError"]
           ELSE /\ experiments' =
                       [experiments EXCEPT ![name] =
                           Experiment(name, variants, description, now)]
                /\ last_call' = [op |-> "create_experiment", name |-> name,
                                 session |-> "", outcome |-> "created"]
    /\ UNCHANGED <<results, ab_limit, breakerVars, cacheVars, svcVars, now>>

\* ABTestManager.update_traffic(experiment_name, variants)
UpdateTraffic(name, variants) ==
    /\ ab_ops < ab_limit
    /\ ab_ops' = ab_ops + 1
    /\ \E verdict \in SumVerdicts(total_weight(variants)) :
           IF ~experiments[name].present \/ verdict = "reject"
           THEN /\ experiments' = experiments
                /\ last_call' = [op |-> "update_traffic", name |-> name,
                                 session |-> "", outcome |-> "ValueError"]
           ELSE /\ experiments' = [experiments EXCEPT ![name].variants = variants]
                /\ last_call' = [op |-> "update_traffic", name |-> name,
                                 session |-> "", outcome |-> "updated"]
    /\ UNCHANGED <<results, ab_limit, breakerVars, cacheVars, svcVars, now>>

\* ABTestManager.enable_experiment(experiment_name, enabled)
EnableExperiment(name, enabled) ==
    /\ ab_ops < ab_limit
    /\ ab_ops' = ab_ops + 1
    /\ experiments' = IF experiments[name].present
                      THEN [experiments EXCEPT ![name].enabled = enabled]
                      ELSE experiments
    /\ last_call' = [op |-> "enable_experiment", name |-> name, session |-> "",
                     outcome |-> IF experiments[name].present THEN "set" ELSE "ignored"]
    /\ UNCHANGED <<results, ab_limit, breakerVars, cacheVars, svcVars, now>>

\* A call of ABTestManager.get_variant(experiment_name, session_id)
GetVariant(name, session) ==
    /\ ab_ops < ab_limit
    /\ ab_ops' = ab_ops + 1
    /\ last_call' = [op |-> "get_variant", name |-> name, session |-> session,
                     outcome |-> get_variant(name, session)]
    /\ UNCHANGED <<experiments, results, ab_limit, breakerVars, cacheVars, svcVars, now>>

\* Mutation of log_append: the record is put in front of the log
log_prepend(log, record) == <<record>> \o log

\* self.results.append(result)
log_append(log, record) == Append(log, record)

\* ABTestManager.record_result(experiment_name, session_id, metrics)
RecordResult(name, session, metrics) ==
    /\ ab_ops < ab_limit
    /\ ab_ops' = ab_ops + 1
    /\ results' = log_append(results,
                             [experiment_name |-> name,
                              variant |-> get_variant(name, session),
                              session_id |-> session,
                              metrics |-> metrics,
                              timestamp |-> now])
    /\ last_call' = [op |-> "record_result", name |-> name, session |-> session,
                     outcome |-> "recorded"]
    /\ UNCHANGED <<experiments, ab_limit, breakerVars, cacheVars, svcVars, now>>


\* ------------------------------------------------------------ the model router

\* The keys of LLMRouter.models, in dict (insertion) order
Providers == <<"dashscope", "openai">>

ProviderNames == { Providers[i] : i \in 1..Len(Providers) }

\* The provider argument of get_llm: None, or a string
NoProvider == [given |-> FALSE, name |-> ""]

Provider(name) == [given |-> TRUE, name |-> name]

ProviderArgs ==
    { NoProvider, Provider(""), Provider("dashscope"), Provider("openai"),
      Provider("azure") }

\* What a router call returns: a handle for a provider, None, or a raised ValueError
Handle(provider) == [raised |-> FALSE, handle |-> provider]

NoHandle == [raised |-> FALSE, handle |-> "None"]

ValueError == [raised |-> TRUE, handle |-> "None"]

\* ModelConfig.is_available
is_available(provider) == api_keys[provider]

\* LLMRouter._create_llm(provider)
create_llm(provider) ==
    IF provider \notin ProviderNames \/ ~is_available(provider)
    THEN ValueError
    ELSE Handle(provider)

\* target = provider or self._active_provider
target_of(arg) == IF arg.given /\ arg.name # "" THEN arg.name ELSE active_provider

\* LLMRouter.get_llm(provider)
get_llm(arg) == create_llm(target_of(arg))

\* LLMRouter.get_primary()
get_primary == get_llm(Provider(llm_provider))

\* Mutation of FallbackProviders: the default provider is not excluded
FallbackProvidersWithDefault(default) ==
    SelectSeq(Providers, LAMBDA p : is_available(p))

\* The providers the loops of get_fallback and switch_to_fallback stop at, in order
FallbackProviders(default) ==
    SelectSeq(Providers, LAMBDA p : p # default /\ is_available(p))

\* LLMRouter.get_fallback()
get_fallback ==
    IF FallbackProviders(llm_provider) = <<>>
    THEN NoHandle
    ELSE get_llm(Provider(Head(FallbackProviders(llm_provider))))

\* A fresh LLMRouter under some settings
RouterInit ==
    /\ llm_provider \in ProviderNames
    /\ api_keys \in [ProviderNames -> BOOLEAN]
    /\ active_provider = llm_provider
    /\ fallback_used = FALSE
    /\ last_router = [op |-> "init", arg |-> NoProvider, outcome |-> NoHandle]
    /\ router_ops = 0

\* One router, left alone
RouterIdle ==
    /\ llm_provider = "dashscope"
    /\ api_keys = [p \in ProviderNames |-> TRUE]
    /\ active_provider = llm_provider
    /\ fallback_used = FALSE
    /\ last_router = [op |-> "init", arg |-> NoProvider, outcome |-> NoHandle]
    /\ router_ops = 0
    /\ router_limit = 0

\* A call of LLMRouter.get_llm(provider)
GetLLM(arg) ==
    /\ router_ops < router_limit
    /\ router_ops' = router_ops + 1
    /\ last_router' = [op |-> "get_llm", arg |-> arg, outcome |-> get_llm(arg)]
    /\ UNCHANGED <<llm_provider, api_keys, active_provider, fallback_used, router_limit,
                   breakerVars, cacheVars, abVars, graphVars, retryVars, sessionVars, apiVars, now>>

\* A call of LLMRouter.get_primary()
GetPrimary ==
    /\ router_ops < router_limit
    /\ router_ops' = router_ops + 1
    /\ last_router' = [op |-> "get_primary", arg |-> NoProvider, outcome |-> get_primary]
    /\ UNCHANGED <<llm_provider, api_keys, active_provider, fallback_used, router_limit,
                   breakerVars, cacheVars, abVars, graphVars, retryVars, sessionVars, apiVars, now>>

\* A call of LLMRouter.get_fallback()
GetFallback ==
    /\ router_ops < router_limit
    /\ router_ops' = router_ops + 1
    /\ last_router' = [op |-> "get_fallback", arg |-> NoProvider, outcome |-> get_fallback]
    /\ UNCHANGED <<llm_provider, api_keys, active_provider, fallback_used, router_limit,
                   breakerVars, cacheVars, abVars, graphVars, retryVars, sessionVars, apiVars, now>>

\* The assignments and the return value of LLMRouter.switch_to_fallback()
switch_to_fallback(op) ==
    IF get_fallback.raised
    THEN /\ last_router' = [op |-> op, arg |-> NoProvider, outcome |-> ValueError]
         /\ UNCHANGED <<active_provider, fallback_used>>
    ELSE IF get_fallback = NoHandle
    THEN /\ last_router' = [op |-> op, arg |-> NoProvider, outcome |-> NoHandle]
         /\ UNCHANGED <<active_provider, fallback_used>>
    ELSE /\ active_provider' = Head(FallbackProviders(llm_provider))
         /\ fallback_used' = TRUE
         /\ last_router' = [op |-> op, arg |-> NoProvider, outcome |-> get_fallback]

\* A call of LLMRouter.switch_to_fallback()
SwitchToFallback ==
    /\ router_ops < router_limit
    /\ router_ops' = router_ops + 1
    /\ switch_to_fallback("switch_to_fallback")
    /\ UNCHANGED <<llm_provider, api_keys, router_limit,
                   breakerVars, cacheVars, abVars, graphVars, retryVars, sessionVars, apiVars, now>>

\* Mutation of SwitchToPrimary: the fallback flag is left as it is
SwitchToPrimaryKeepsFlag ==
    /\ router_ops < router_limit
    /\ router_ops' = router_ops + 1
    /\ active_provider' = llm_provider
    /\ last_router' = [op |-> "switch_to_primary", arg |-> NoProvider,
                       outcome |-> get_primary]
    /\ UNCHANGED <<llm_provider, api_keys, fallback_used, router_limit,
                   breakerVars, cacheVars, abVars, graphVars, retryVars, sessionVars, apiVars, now>>

\* A call of LLMRouter.switch_to_primary(): the assignments come before get_primary
SwitchToPrimary ==
    /\ router_ops < router_limit
    /\ router_ops' = router_ops + 1
    /\ active_provider' = llm_provider
    /\ fallback_used' = FALSE
    /\ last_router' = [op |-> "switch_to_primary", arg |-> NoProvider,
                       outcome |-> get_primary]
    /\ UNCHANGED <<llm_provider, api_keys, router_limit,
                   breakerVars, cacheVars, abVars, graphVars, retryVars, sessionVars, apiVars, now>>

\* A call of get_llm_with_fallback()
GetLLMWithFallback ==
    /\ router_ops < router_limit
    /\ router_ops' = router_ops + 1
    /\ IF ~get_primary.raised
       THEN /\ last_router' = [op |-> "get_llm_with_fallback", arg |-> NoProvider,
                               outcome |-> get_primary]
            /\ UNCHANGED <<active_provider, fallback_used>>
       ELSE IF get_fallback = NoHandle
       THEN /\ last_router' = [op |-> "get_llm_with_fallback", arg |-> NoProvider,
                               outcome |-> ValueError]
            /\ UNCHANGED <<active_provider, fallback_used>>
       ELSE switch_to_fallback("get_llm_with_fallback")
    /\ UNCHANGED <<llm_provider, api_keys, router_limit,
                   breakerVars, cacheVars, abVars, graphVars, retryVars, sessionVars, apiVars, now>>


\* ------------------------------------------------------------ the cache

\* Queries are strings, modelled as sequences of characters
Queries == { <<"a">>, <<" ", "A", " ">>, <<"b">> }

\* str.strip(): leading and trailing whitespace removed
RECURSIVE LStrip(_)
LStrip(q) == IF q # <<>> /\ Head(q) = " " THEN LStrip(Tail(q)) ELSE q

RECURSIVE RStrip(_)
RStrip(q) ==
    IF q # <<>> /\ q[Len(q)] = " " THEN RStrip(SubSeq(q, 1, Len(q) - 1)) ELSE q

Strip(q) == RStrip(LStrip(q))

\* str.lower()
LowerChar(ch) ==
    CASE ch = "A" -> "a"
      [] ch = "B" -> "b"
      [] ch = "C" -> "c"
      [] ch = "D" -> "d"
      [] ch = "E" -> "e"
      [] ch = "F" -> "f"
      [] ch = "G" -> "g"
      [] ch = "H" -> "h"
      [] ch = "I" -> "i"
      [] ch = "J" -> "j"
      [] ch = "K" -> "k"
      [] ch = "L" -> "l"
      [] ch = "M" -> "m"
      [] ch = "N" -> "n"
      [] ch = "O" -> "o"
      [] ch = "P" -> "p"
      [] ch = "Q" -> "q"
      [] ch = "R" -> "r"
      [] ch = "S" -> "s"
      [] ch = "T" -> "t"
      [] ch = "U" -> "u"
      [] ch = "V" -> "v"
      [] ch = "W" -> "w"
      [] ch = "X" -> "x"
      [] ch = "Y" -> "y"
      [] ch = "Z" -> "z"
      [] OTHER -> ch

Lower(q) == [i \in 1..Len(q) |-> LowerChar(q[i])]

\* Mutation of get_hash: the query is hashed as given
get_hash_raw(query) == query

\* ResponseCache._get_hash: the digest of the stripped, lower-cased query. The
\* truncated SHA-256 digest is taken to be injective on the queries of a run, so
\* the normalized text stands for it.
get_hash(query) == Lower(Strip(query))

\* Embeddings.embed_query of the embedding collaborator, on the model's queries:
\* the vector of "b" is within the similarity threshold of that of "a" (cosine
\* 4/sqrt(17) = 0.97) and the vector of " A " is far from both (cosine 0 and 0.24)
embed_query(query) ==
    CASE query = <<"a">> -> <<4, 0>>
      [] query = <<"b">> -> <<4, 1>>
      [] OTHER -> <<0, 3>>

\* ResponseCache.__init__ default similarity_threshold = 0.95, in hundredths
SimilarityThresholdPct == 95

\* Outcomes of the embedding collaborator during one get or set
EmbOutcomes == {"ok", "embed_fail"}

\* None, and the absent embedding (None or an empty list, both falsy)
None == <<>>

\* The value of last_set when the last call was not a set
NoSet == [query |-> None, at |-> 0]

\* The response payload passed to the set call that creates entry id
Payload(id) == <<"response", id>>

\* The ttl arguments of set: None, or a number of time units (given as <<t>>)
TtlArgs == {None, <<0>>, <<1>>}

\* Mutation of EffectiveTtl: only None selects the default
EffectiveTtlNoneOnly(arg, default) == IF arg = None THEN default ELSE arg[1]

\* `ttl or self.ttl` (line 214): None and 0 are falsy
EffectiveTtl(arg, default) == IF arg = None \/ arg[1] = 0 THEN default ELSE arg[1]

\* embed_query is called only when an embedding is asked for (ask), so its
\* outcome is an input of the operation only then
EmbPossible(emb, ask) == ask \/ emb = "ok"

\* ResponseCache._get_embedding: <<vector, enable_semantic, embeddings_loaded>>
\* after the call; emb is the outcome of embed_query, available whether
\* get_embeddings() succeeds
get_embedding(query, emb, enabled, loaded, available) ==
    IF ~enabled THEN <<None, enabled, loaded>>
    ELSE IF ~loaded /\ ~available THEN <<None, FALSE, FALSE>>
    ELSE IF emb = "embed_fail" THEN <<None, enabled, TRUE>>
    ELSE <<embed_query(query), enabled, TRUE>>

\* sum(x * y for x, y in zip(a, b))
RECURSIVE DotUpTo(_, _, _)
DotUpTo(a, b, n) == IF n = 0 THEN 0 ELSE DotUpTo(a, b, n - 1) + a[n] * b[n]

MinLen(a, b) == IF Len(a) < Len(b) THEN Len(a) ELSE Len(b)

Dot(a, b) == DotUpTo(a, b, MinLen(a, b))

\* ResponseCache._cosine_similarity, exactly: the score num / sqrt(densq),
\* which is 0 when either norm is 0
cosine_similarity(a, b) ==
    IF Dot(a, a) = 0 \/ Dot(b, b) = 0
    THEN [num |-> 0, densq |-> 1]
    ELSE [num |-> Dot(a, b), densq |-> Dot(a, a) * Dot(b, b)]

\* score s1 > score s2
ScoreGreater(s1, s2) ==
    IF s1.num >= 0 /\ s2.num >= 0
    THEN s1.num * s1.num * s2.densq > s2.num * s2.num * s1.densq
    ELSE IF s1.num >= 0 THEN TRUE
    ELSE IF s2.num >= 0 THEN FALSE
    ELSE s1.num * s1.num * s2.densq < s2.num * s2.num * s1.densq

\* score s >= similarity_threshold
ScoreReaches(s, pct) ==
    s.num >= 0 /\ s.num * s.num * 100 * 100 >= pct * pct * s.densq

\* The loop of get, lines 179-187: <<index of best_match (0 for None), best_score>>
\* after the first n entries of the semantic cache
RECURSIVE BestMatch(_, _, _)
BestMatch(qe, sem, n) ==
    IF n = 0 THEN <<0, [num |-> 0, densq |-> 1]>>
    ELSE LET prev == BestMatch(qe, sem, n - 1)
             score == cosine_similarity(qe, sem[n].embedding)
         IN  IF sem[n].embedding # None /\ ScoreGreater(score, prev[2])
             THEN <<n, score>>
             ELSE prev

\* The expiry test of _cleanup_expired (lines 130 and 138)
Expired(e, t) == t - e.created_at > e.ttl

\* ResponseCache._cleanup_expired at time t, on the exact and the semantic cache
cleanup_exact(exact, t) == LET Live(x) == ~Expired(x.entry, t) IN SelectSeq(exact, Live)

cleanup_semantic(sem, t) == LET Live(e) == ~Expired(e, t) IN SelectSeq(sem, Live)

\* Position of key h in the exact cache, 0 when absent
IndexOfKey(exact, h) ==
    IF \E i \in 1..Len(exact) : exact[i].key = h
    THEN CHOOSE i \in 1..Len(exact) : exact[i].key = h
    ELSE 0

\* sorted(..., key=(hits, created_at)) is stable: entry i comes before entry j
SortsBefore(exact, i, j) ==
    LET a == exact[i].entry
        b == exact[j].entry
    IN  \/ a.hits < b.hits
        \/ a.hits = b.hits /\ a.created_at < b.created_at
        \/ a.hits = b.hits /\ a.created_at = b.created_at /\ i < j

\* Mutation of ToRemove: one entry whatever the size
ToRemoveOne(n) == 1

\* max(1, len(sorted_items) // 10)
ToRemove(n) == IF n \div 10 > 1 THEN n \div 10 ELSE 1

\* ResponseCache._evict_lru
evict_lru(exact, maxsize) ==
    IF Len(exact) >= maxsize
    THEN LET rank(i) == Cardinality({j \in 1..Len(exact) : SortsBefore(exact, j, i)})
             keep == {i \in 1..Len(exact) : rank(i) >= ToRemove(Len(exact))}
             RECURSIVE Kept(_)
             Kept(i) == IF i > Len(exact) THEN <<>>
                        ELSE IF i \in keep THEN <<exact[i]>> \o Kept(i + 1)
                        ELSE Kept(i + 1)
         IN  Kept(1)
    ELSE exact

\* self._exact_cache[h] = entry: an existing key keeps its place in the dict
PutExact(exact, h, entry) ==
    IF IndexOfKey(exact, h) = 0
    THEN Append(exact, [key |-> h, entry |-> entry])
    ELSE [exact EXCEPT ![IndexOfKey(exact, h)] = [key |-> h, entry |-> entry]]

\* entry.hits += 1 on the entry object id, wherever it is referenced
HitExact(exact, id) ==
    [i \in 1..Len(exact) |->
        IF exact[i].entry.id = id
        THEN [exact[i] EXCEPT !.entry.hits = @ + 1]
        ELSE exact[i]]

HitSemantic(sem, id) ==
    [i \in 1..Len(sem) |-> IF sem[i].id = id THEN [sem[i] EXCEPT !.hits = @ + 1] ELSE sem[i]]

\* ResponseCache.__init__ with semantic mode on or off
CacheInit ==
    /\ max_size \in 1..MaxSize
    /\ cache_ttl = DefaultTtl
    /\ enable_semantic \in BOOLEAN
    /\ embeddings_available \in BOOLEAN
    /\ enable_semantic \/ embeddings_available
    /\ embeddings_loaded = FALSE
    /\ exact_cache = <<>>
    /\ semantic_cache = <<>>
    /\ cache_stats = [hits |-> 0, misses |-> 0, semantic_hits |-> 0]
    /\ next_id = 1
    /\ last_get = [query |-> None, result |-> None]
    /\ last_set = NoSet
    /\ ever_set = {}
    /\ set_since_clear = {}
    /\ ops = 0

\* One cache, left alone, for the runs of the breaker
CacheIdle ==
    /\ CacheInit
    /\ max_size = MaxSize
    /\ ~enable_semantic
    /\ ops_limit = 0

\* One breaker, left alone, for the runs of the cache
BreakerIdle ==
    /\ BreakerInit
    /\ failure_threshold = MaxThreshold
    /\ half_open_max_calls = MaxHalfOpen
    /\ ~fallback

\* Mutation of CountGet: a semantic hit is not counted as a hit
CountGetSemanticOnly(stats, exacthit, semhit) ==
    IF exacthit THEN [stats EXCEPT !.hits = @ + 1]
    ELSE IF semhit THEN [stats EXCEPT !.semantic_hits = @ + 1]
    ELSE [stats EXCEPT !.misses = @ + 1]

\* The counters of get: lines 171, 191-192 and 196
CountGet(stats, exacthit, semhit) ==
    IF exacthit THEN [stats EXCEPT !.hits = @ + 1]
    ELSE IF semhit THEN [stats EXCEPT !.hits = @ + 1, !.semantic_hits = @ + 1]
    ELSE [stats EXCEPT !.misses = @ + 1]

\* ResponseCache.get_stats, without the derived hit_rate
get_stats ==
    [size |-> Len(exact_cache),
     semantic_size |-> Len(semantic_cache),
     max_size |-> max_size,
     hits |-> cache_stats.hits,
     misses |-> cache_stats.misses,
     semantic_hits |-> cache_stats.semantic_hits]

\* ResponseCache.get(query); emb is what the embedding collaborator does if asked
Get(query, emb) ==
    /\ ops < ops_limit
    /\ LET exact == cleanup_exact(exact_cache, now)
           sem == cleanup_semantic(semantic_cache, now)
           i == IndexOfKey(exact, get_hash(query))
           ask == i = 0 /\ enable_semantic /\ sem # <<>>
           ge == IF ask THEN get_embedding(query, emb, enable_semantic, embeddings_loaded,
                                           embeddings_available)
                 ELSE <<None, enable_semantic, embeddings_loaded>>
           best == IF ge[1] # None THEN BestMatch(ge[1], sem, Len(sem))
                   ELSE <<0, [num |-> 0, densq |-> 1]>>
           semhit == best[1] # 0 /\ ScoreReaches(best[2], SimilarityThresholdPct)
           hitid == IF i # 0 THEN exact[i].entry.id
                    ELSE IF semhit THEN sem[best[1]].id ELSE 0
           answer == IF i # 0 THEN exact[i].entry.response
                     ELSE IF semhit THEN sem[best[1]].response ELSE None
       IN  /\ EmbPossible(emb, ask)
           /\ exact_cache' = IF hitid # 0 THEN HitExact(exact, hitid) ELSE exact
           /\ semantic_cache' = IF hitid # 0 THEN HitSemantic(sem, hitid) ELSE sem
           /\ cache_stats' = CountGet(cache_stats, i # 0, semhit)
           /\ enable_semantic' = ge[2]
           /\ embeddings_loaded' = ge[3]
           /\ last_get' = [query |-> query, result |-> answer]
    /\ last_set' = NoSet
    /\ ops' = ops + 1
    /\ UNCHANGED <<max_size, cache_ttl, embeddings_available, next_id, ever_set,
                   set_since_clear, ops_limit, breakerVars, abVars, svcVars, now>>

\* ResponseCache.set(query, Payload(next_id), ttl)
Set(query, ttl, emb) ==
    /\ ops < ops_limit
    /\ EmbPossible(emb, enable_semantic)
    /\ LET ge == get_embedding(query, emb, enable_semantic, embeddings_loaded,
                               embeddings_available)
           entry == [id |-> next_id, query |-> query, response |-> Payload(next_id),
                     embedding |-> ge[1], created_at |-> now, hits |-> 0,
                     ttl |-> EffectiveTtl(ttl, cache_ttl), ttl_arg |-> ttl]
       IN  /\ exact_cache' =
                  PutExact(evict_lru(exact_cache, max_size), get_hash(query), entry)
           /\ semantic_cache' =
                  IF entry.embedding # None THEN Append(semantic_cache, entry)
                  ELSE semantic_cache
           /\ enable_semantic' = ge[2]
           /\ embeddings_loaded' = ge[3]
    /\ next_id' = next_id + 1
    /\ last_set' = [query |-> query, at |-> now]
    /\ ever_set' = ever_set \cup {query}
    /\ set_since_clear' = set_since_clear \cup {query}
    /\ ops' = ops + 1
    /\ UNCHANGED <<max_size, cache_ttl, embeddings_available, cache_stats, last_get,
                   ops_limit, breakerVars, abVars, svcVars, now>>

\* ResponseCache.invalidate(query)
Invalidate(query) ==
    /\ ops < ops_limit
    /\ ops' = ops + 1
    /\ exact_cache' = LET Other(x) == x.key # get_hash(query) IN SelectSeq(exact_cache, Other)
    /\ last_set' = NoSet
    /\ UNCHANGED <<max_size, cache_ttl, enable_semantic, embeddings_available,
                   embeddings_loaded,
                   semantic_cache, cache_stats, next_id, last_get, ever_set,
                   set_since_clear, ops_limit, breakerVars, abVars, svcVars, now>>

\* Mutation of ClearSemantic: the semantic cache is left as it is
ClearSemanticKept(sem) == sem

\* self._semantic_cache.clear()
ClearSemantic(sem) == <<>>

\* ResponseCache.clear()
Clear ==
    /\ ops < ops_limit
    /\ ops' = ops + 1
    /\ exact_cache' = <<>>
    /\ semantic_cache' = ClearSemantic(semantic_cache)
    /\ last_set' = NoSet
    /\ set_since_clear' = {}
    /\ UNCHANGED <<max_size, cache_ttl, enable_semantic, embeddings_available,
                   embeddings_loaded,
                   cache_stats, next_id, last_get, ever_set, ops_limit, breakerVars, abVars, svcVars, now>>

\* A cache in exact mode
\* ------------------------------------------------------ the workflow graph

\* Classifier responses are strings, modelled as sequences of characters
ProductAgentText == <<"P", "r", "o", "d", "u", "c", "t", "A", "g", "e", "n", "t">>
OrderAgentText == <<"O", "r", "d", "e", "r", "A", "g", "e", "n", "t">>
AfterSalesAgentText == <<"A", "f", "t", "e", "r", "S", "a", "l", "e", "s", "A", "g", "e", "n", "t">>
ChitchatAgentText == <<"C", "h", "i", "t", "c", "h", "a", "t", "A", "g", "e", "n", "t">>

\* valid_agents, in list order
valid_agents == <<"ProductAgent", "OrderAgent", "AfterSalesAgent", "ChitchatAgent">>

ValidAgents == { valid_agents[i] : i \in 1..Len(valid_agents) }

\* The characters of an agent name
NameText(agent) ==
    CASE agent = "ProductAgent" -> ProductAgentText
      [] agent = "OrderAgent" -> OrderAgentText
      [] agent = "AfterSalesAgent" -> AfterSalesAgentText
      [] agent = "ChitchatAgent" -> ChitchatAgentText

\* What the classifier may answer: a name, a name in another case or padded
\* with blanks, a name inside a longer answer, two names, no name at all
ClassifierTexts ==
    { ProductAgentText, OrderAgentText, AfterSalesAgentText, ChitchatAgentText,
      Lower(OrderAgentText),
      <<" ">> \o AfterSalesAgentText \o <<" ">>,
      OrderAgentText \o <<".">>,
      <<"n", "o", "t", " ">> \o OrderAgentText,
      OrderAgentText \o <<" ">> \o ProductAgentText,
      <<"O", "r", "d", "e", "r", " ", "A", "g", "e", "n", "t">>,
      <<"U", "n", "k", "n", "o", "w", "n">>,
      <<>> }

\* sub in text, for strings
Contains(text, sub) ==
    \E i \in 1..(Len(text) - Len(sub) + 1) : SubSeq(text, i, i + Len(sub) - 1) = sub

\* Mutation of route: no default when no name is found
route_no_default(content) ==
    LET agent_name == Strip(content)
        found == SelectSeq(valid_agents,
                           LAMBDA v : Contains(Lower(agent_name), Lower(NameText(v))))
    IN  IF found # <<>> THEN Head(found) ELSE "None"

\* Mutation of route: of the names found, the last in the order of valid_agents
\* is taken
route_last_match(content) ==
    LET agent_name == Strip(content)
        found == SelectSeq(valid_agents,
                           LAMBDA v : Contains(Lower(agent_name), Lower(NameText(v))))
    IN  IF found # <<>> THEN found[Len(found)] ELSE "ChitchatAgent"

\* SupervisorAgent.route, from the content of the LLM's response on
route(content) ==
    LET agent_name == Strip(content)
        found == SelectSeq(valid_agents,
                           LAMBDA v : Contains(Lower(agent_name), Lower(NameText(v))))
    IN  IF found # <<>> THEN Head(found) ELSE "ChitchatAgent"

\* Mutation of conditional_edges: two targets are exchanged
conditional_edges_swapped(agent) ==
    CASE agent = "ProductAgent" -> "order_agent"
      [] agent = "OrderAgent" -> "product_agent"
      [] agent = "AfterSalesAgent" -> "aftersales_agent"
      [] agent = "ChitchatAgent" -> "chitchat_agent"

\* The mapping of add_conditional_edges: the node _route_to_agent's value leads to
conditional_edges(agent) ==
    CASE agent = "ProductAgent" -> "product_agent"
      [] agent = "OrderAgent" -> "order_agent"
      [] agent = "AfterSalesAgent" -> "aftersales_agent"
      [] agent = "ChitchatAgent" -> "chitchat_agent"

\* The agent whose chat() a node calls
node_agent(node) ==
    CASE node = "product_agent" -> "ProductAgent"
      [] node = "order_agent" -> "OrderAgent"
      [] node = "aftersales_agent" -> "AfterSalesAgent"
      [] node = "chitchat_agent" -> "ChitchatAgent"

\* The text an agent's chat() returns
chat(agent) ==
    CASE agent = "ProductAgent" -> "product reply"
      [] agent = "OrderAgent" -> "order reply"
      [] agent = "AfterSalesAgent" -> "aftersales reply"
      [] agent = "ChitchatAgent" -> "chitchat reply"

\* The value of classified before the classifier has answered
NoText == <<"-">>

NoOutput == [raised |-> FALSE, message |-> "", agent_used |-> ""]

\* No request yet
GraphInit ==
    /\ g_pc = "idle"
    /\ graph_state = [current_agent |-> "", agent_response |-> ""]
    /\ classified = NoText
    /\ handler_node = ""
    /\ hops = [supervisor |-> 0, agent |-> 0]
    /\ llm_calls = 0
    /\ graph_output = NoOutput
    /\ requests = 0

\* One graph, left alone
GraphIdle ==
    /\ GraphInit
    /\ request_limit = 0

\* The initial state of a request, at the graph's entry point
EnterGraph ==
    /\ g_pc' = "supervisor"
    /\ graph_state' = [current_agent |-> "ChitchatAgent", agent_response |-> ""]
    /\ classified' = NoText
    /\ handler_node' = ""
    /\ hops' = [supervisor |-> 0, agent |-> 0]
    /\ llm_calls' = 0
    /\ graph_output' = NoOutput

\* CustomerServiceGraph.invoke builds the initial state and enters the graph
\* at the supervisor
Invoke ==
    /\ g_pc \in {"idle", "returned", "raised"}
    /\ requests < request_limit
    /\ requests' = requests + 1
    /\ EnterGraph
    /\ UNCHANGED <<request_limit, breakerVars, cacheVars, abVars, routerVars, retryVars, sessionVars, apiVars, now>>

\* _supervisor_node: SupervisorAgent.route gets content from the LLM
SupervisorNode(content) ==
    /\ g_pc = "supervisor"
    /\ g_pc' = "routed"
    /\ hops' = [hops EXCEPT !.supervisor = @ + 1]
    /\ llm_calls' = llm_calls + 1
    /\ classified' = content
    /\ graph_state' = [graph_state EXCEPT !.current_agent = route(content)]
    /\ UNCHANGED <<handler_node, graph_output, requests, request_limit,
                   breakerVars, cacheVars, abVars, routerVars, retryVars, sessionVars, apiVars, now>>

\* _supervisor_node when self.llm.invoke raises: nothing in route or in the
\* graph catches it, and invoke raises
SupervisorNodeFails ==
    /\ g_pc = "supervisor"
    /\ g_pc' = "raised"
    /\ hops' = [hops EXCEPT !.supervisor = @ + 1]
    /\ llm_calls' = llm_calls + 1
    /\ graph_output' = [raised |-> TRUE, message |-> "", agent_used |-> ""]
    /\ UNCHANGED <<graph_state, classified, handler_node, requests, request_limit,
                   breakerVars, cacheVars, abVars, routerVars, retryVars, sessionVars, apiVars, now>>

\* The conditional edge, and the agent node it leads to; the node's edge to END
AgentNode(ok) ==
    /\ g_pc = "routed"
    /\ hops' = [hops EXCEPT !.agent = @ + 1]
    /\ handler_node' = conditional_edges(graph_state.current_agent)
    /\ IF ok
       THEN /\ g_pc' = "end"
            /\ graph_state' =
                   [graph_state EXCEPT !.agent_response = chat(node_agent(handler_node'))]
            /\ UNCHANGED graph_output
       ELSE /\ g_pc' = "raised"
            /\ graph_output' = [raised |-> TRUE, message |-> "", agent_used |-> ""]
            /\ UNCHANGED graph_state
    /\ UNCHANGED <<classified, llm_calls, requests, request_limit,
                   breakerVars, cacheVars, abVars, routerVars, retryVars, sessionVars, apiVars, now>>

\* CustomerServiceGraph.invoke returns
Return ==
    /\ g_pc = "end"
    /\ g_pc' = "returned"
    /\ graph_output' = [raised |-> FALSE, message |-> graph_state.agent_response,
                        agent_used |-> graph_state.current_agent]
    /\ UNCHANGED <<graph_state, classified, handler_node, hops, llm_calls, requests,
                   request_limit, breakerVars, cacheVars, abVars, routerVars, retryVars, sessionVars, apiVars, now>>

\* ------------------------------------------------------------ with_retry

\* retry_delay, in units of time
RetryDelays == {1, 3}

\* What one invocation of the wrapped function does: it returns, raises an
\* exception of retryable_exceptions, or raises another exception
AttemptOutcomes == {"returns", "retryable", "other"}

RECURSIVE Pow2(_)
Pow2(n) == IF n = 0 THEN 1 ELSE 2 * Pow2(n - 1)

\* Mutation of backoff_delay: the delay grows linearly
backoff_delay_linear(delay, k, exponential) ==
    delay * (IF exponential THEN k + 1 ELSE 1)

\* delay = retry_delay * (2 ** attempt if exponential_backoff else 1)
backoff_delay(delay, k, exponential) ==
    delay * (IF exponential THEN Pow2(k) ELSE 1)

NoRetryResult == [kind |-> "none", attempt |-> 0]

\* A function decorated with with_retry(max_retries, retry_delay, exponential_backoff)
RetryInit ==
    /\ max_retries \in 0..MaxRetries
    /\ retry_delay \in RetryDelays
    /\ exponential_backoff \in BOOLEAN
    /\ r_pc = "idle"
    /\ attempt = 0
    /\ invocations = 0
    /\ delays = <<>>
    /\ last_exception = 0
    /\ retry_result = NoRetryResult

\* One decorated function, never called
RetryIdle ==
    /\ max_retries = 0
    /\ retry_delay = 1
    /\ exponential_backoff = TRUE
    /\ r_pc = "idle"
    /\ attempt = 0
    /\ invocations = 0
    /\ delays = <<>>
    /\ last_exception = 0
    /\ retry_result = NoRetryResult

\* The wrapper is called: last_exception = None, and the loop starts
RetryCall ==
    /\ r_pc = "idle"
    /\ r_pc' = IF max_retries + 1 > 0 THEN "loop" ELSE "raise"
    /\ attempt' = 0
    /\ last_exception' = 0
    /\ UNCHANGED <<max_retries, retry_delay, exponential_backoff, invocations, delays,
                   retry_result, breakerVars, cacheVars, abVars, routerVars, graphVars,
                   sessionVars, apiVars, now>>

\* One turn of the loop: func is invoked for the attempt-th time (counting from
\* 0); its exception is kept and, unless this was the last turn, the wrapper
\* sleeps for the delay
Attempt(outcome) ==
    /\ r_pc = "loop"
    /\ invocations' = invocations + 1
    /\ CASE outcome = "returns" ->
              /\ r_pc' = "returned"
              /\ retry_result' = [kind |-> "returned", attempt |-> invocations']
              /\ UNCHANGED <<attempt, delays, last_exception>>
         [] outcome = "other" ->
              /\ r_pc' = "raised"
              /\ retry_result' = [kind |-> "raised", attempt |-> invocations']
              /\ UNCHANGED <<attempt, delays, last_exception>>
         [] outcome = "retryable" ->
              /\ last_exception' = invocations'
              /\ delays' = IF attempt < max_retries
                           THEN Append(delays, backoff_delay(retry_delay, attempt,
                                                             exponential_backoff))
                           ELSE delays
              /\ attempt' = attempt + 1
              /\ r_pc' = IF attempt + 1 < max_retries + 1 THEN "loop" ELSE "raise"
              /\ UNCHANGED retry_result
    /\ UNCHANGED <<max_retries, retry_delay, exponential_backoff,
                   breakerVars, cacheVars, abVars, routerVars, graphVars,
                   sessionVars, apiVars, now>>

\* raise last_exception, after the loop
RaiseLast ==
    /\ r_pc = "raise"
    /\ r_pc' = "raised"
    /\ retry_result' = [kind |-> "raised", attempt |-> last_exception]
    /\ UNCHANGED <<max_retries, retry_delay, exponential_backoff, attempt, invocations,
                   delays, last_exception, breakerVars, cacheVars, abVars, routerVars,
                   graphVars, sessionVars, apiVars, now>>

\* ------------------------------------------------------ the session manager

SessionIds == {"s1", "s2"}

Roles == {"user", "assistant"}

\* A session id that is not a key of _sessions
NoSession == [present |-> FALSE, chat_history |-> <<>>, created_at |-> 0,
              last_activity |-> 0]

\* InMemorySessionManager._is_expired, for a stored session
is_expired(session) == now - session.last_activity > session_ttl

\* InMemorySessionManager._clean_expired_sessions
clean_expired_sessions(store) ==
    [s \in SessionIds |->
        IF store[s].present /\ is_expired(store[s]) THEN NoSession ELSE store[s]]

\* InMemorySessionManager.get_session: the store after the cleaning, and the
\* session found (NoSession for None)
get_session(store, sid) == clean_expired_sessions(store)[sid]

\* history[-n:]
last_messages(history, n) ==
    IF n = 0 THEN history ELSE SubSeq(history, Len(history) - n + 1, Len(history))

\* del self._sessions[session_id]
deleted(store, sid) == [store EXCEPT ![sid] = NoSession]

\* InMemorySessionManager.add_message: the store it leaves
add_message(store, sid, role, content) ==
    LET found == get_session(store, sid)
        session == IF found.present
                   THEN found
                   ELSE [present |-> TRUE, chat_history |-> <<>>, created_at |-> now,
                         last_activity |-> now]
        history == Append(session.chat_history,
                          [role |-> role, content |-> content, timestamp |-> now])
        limited == IF Len(history) > max_history
                   THEN last_messages(history, max_history)
                   ELSE history
    IN  [clean_expired_sessions(store) EXCEPT
            ![sid] = [session EXCEPT !.chat_history = limited, !.last_activity = now]]

\* InMemorySessionManager.get_chat_history: the list it returns
get_chat_history(store, sid) ==
    IF get_session(store, sid).present
    THEN get_session(store, sid).chat_history
    ELSE <<>>

NoSessionCall == [op |-> "init", sid |-> "", returned |-> <<>>]

\* A fresh InMemorySessionManager(max_history, ttl_minutes)
SessionInit ==
    /\ max_history \in 0..MaxHistory
    /\ session_ttl \in 1..MaxSessionTtl
    /\ sessions = [s \in SessionIds |-> NoSession]
    /\ next_msg = 1
    /\ last_session_call = NoSessionCall
    /\ session_ops = 0

\* One manager, left alone
SessionIdle ==
    /\ max_history = 1
    /\ session_ttl = 1
    /\ sessions = [s \in SessionIds |-> NoSession]
    /\ next_msg = 1
    /\ last_session_call = NoSessionCall
    /\ session_ops = 0
    /\ session_limit = 0

\* A call of add_message(session_id, role, content), with a content not yet used
AddMessage(sid, role) ==
    /\ session_ops < session_limit
    /\ session_ops' = session_ops + 1
    /\ sessions' = add_message(sessions, sid, role, next_msg)
    /\ next_msg' = next_msg + 1
    /\ last_session_call' = [op |-> "add_message", sid |-> sid, returned |-> <<>>]
    /\ UNCHANGED <<max_history, session_ttl, session_limit, breakerVars, cacheVars,
                   abVars, routerVars, graphVars, retryVars, apiVars, now>>

\* A call of get_chat_history(session_id); get_session cleans the store
GetChatHistory(sid) ==
    /\ session_ops < session_limit
    /\ session_ops' = session_ops + 1
    /\ sessions' = clean_expired_sessions(sessions)
    /\ last_session_call' = [op |-> "get_chat_history", sid |-> sid,
                             returned |-> get_chat_history(sessions, sid)]
    /\ UNCHANGED <<max_history, session_ttl, next_msg, session_limit, breakerVars,
                   cacheVars, abVars, routerVars, graphVars, retryVars, apiVars, now>>

\* A call of delete_session(session_id)
DeleteSession(sid) ==
    /\ session_ops < session_limit
    /\ session_ops' = session_ops + 1
    /\ sessions' = IF sessions[sid].present THEN deleted(sessions, sid) ELSE sessions
    /\ last_session_call' = [op |-> "delete_session", sid |-> sid, returned |-> <<>>]
    /\ UNCHANGED <<max_history, session_ttl, next_msg, session_limit, breakerVars,
                   cacheVars, abVars, routerVars, graphVars, retryVars, apiVars, now>>

\* ------------------------------------------------------ the chat endpoints

\* InMemorySessionManager(max_history=20, ttl_minutes=60), in main.py and stream.py
AppMaxHistory == 20

AppSessionTtl == 60

\* The session ids of the requests
ApiSessions == {"s1"}

\* request.message
UserMessage == "question"

\* The content of the fallback of llm_circuit_breaker: the fixed message for a
\* degraded service
DegradedMessage == "degraded service message"

\* str(e) of the ValueError of _create_llm and of an exception of the backend
ValueErrorText == "text of ValueError"

BackendErrorText == "text of backend exception"

\* The body of the response to a request whose handler raised
InternalServerError == "Internal Server Error"

\* How llm.astream(messages) goes: it yields a chunk and ends, raises before
\* the first chunk, or raises after a chunk
StreamOutcomes == {"completes", "raises", "raises_after_chunk"}

Event(type, message) == [type |-> type, message |-> message]

NoResponse == [status |-> "none", message |-> "", agent_used |-> ""]

\* The applications of main.py and stream.py, each with its session manager
ApiInit ==
    /\ api_pc = "idle"
    /\ chat_session = ""
    /\ chat_response = NoResponse
    /\ stream_sessions = [s \in SessionIds |-> NoSession]
    /\ stream_events = <<>>
    /\ api_ops = 0

\* No request is ever made
ApiIdle ==
    /\ ApiInit
    /\ api_limit = 0

\* chat, standard mode, up to the graph's supervisor: the history is read from
\* the session manager and customer_service_graph.invoke is entered
ChatBegin(sid) ==
    /\ api_pc = "idle"
    /\ api_ops < api_limit
    /\ api_ops' = api_ops + 1
    /\ api_pc' = "graph"
    /\ chat_session' = sid
    /\ chat_response' = NoResponse
    /\ sessions' = clean_expired_sessions(sessions)
    /\ requests' = requests + 1
    /\ EnterGraph
    /\ UNCHANGED <<stream_sessions, stream_events, api_limit, request_limit,
                   max_history, session_ttl, next_msg, last_session_call, session_ops,
                   session_limit, breakerVars, cacheVars, abVars, routerVars, retryVars,
                   now>>

\* chat, after invoke has returned: both messages are added to the session and
\* the response is made
ChatRespond ==
    /\ api_pc = "graph"
    /\ g_pc = "returned"
    /\ api_pc' = "idle"
    /\ sessions' = add_message(add_message(sessions, chat_session, "user", UserMessage),
                               chat_session, "assistant", graph_output.message)
    /\ chat_response' = [status |-> "ok", message |-> graph_output.message,
                         agent_used |-> graph_output.agent_used]
    /\ UNCHANGED <<chat_session, stream_sessions, stream_events, api_ops, api_limit,
                   max_history, session_ttl, next_msg, last_session_call, session_ops,
                   session_limit, breakerVars, cacheVars, abVars, routerVars, graphVars,
                   retryVars, now>>

\* chat, after invoke has raised: the handler has no try, and the framework
\* answers with its own error body
ChatError ==
    /\ api_pc = "graph"
    /\ g_pc = "raised"
    /\ api_pc' = "idle"
    /\ chat_response' = [status |-> "error", message |-> InternalServerError,
                         agent_used |-> ""]
    /\ UNCHANGED <<chat_session, stream_sessions, stream_events, api_ops, api_limit,
                   breakerVars, cacheVars, abVars, routerVars, graphVars, retryVars,
                   sessionVars, now>>

\* stream_chat and generate_stream_response: the history is read, the LLM is
\* taken from the router and streamed, and then the messages and the
\* experiment result are recorded; any exception becomes an error event
StreamChat(sid, outcome) ==
    /\ api_pc = "idle"
    /\ api_ops < api_limit
    /\ api_ops' = api_ops + 1
    /\ IF get_llm(NoProvider).raised
       THEN /\ stream_events' = <<Event("error", ValueErrorText)>>
            /\ stream_sessions' = clean_expired_sessions(stream_sessions)
            /\ UNCHANGED results
       ELSE CASE outcome = "raises" ->
                   /\ stream_events' = <<Event("error", BackendErrorText)>>
                   /\ stream_sessions' = clean_expired_sessions(stream_sessions)
                   /\ UNCHANGED results
              [] outcome = "raises_after_chunk" ->
                   /\ stream_events' = <<Event("chunk", "content"),
                                         Event("error", BackendErrorText)>>
                   /\ stream_sessions' = clean_expired_sessions(stream_sessions)
                   /\ UNCHANGED results
              [] outcome = "completes" ->
                   /\ stream_events' = <<Event("chunk", "content"), Event("done", "")>>
                   /\ stream_sessions' =
                          add_message(add_message(stream_sessions, sid, "user",
                                                  UserMessage),
                                      sid, "assistant", "content")
                   /\ results' = log_append(results,
                                            [experiment_name |-> "llm_provider",
                                             variant |-> get_variant("llm_provider", sid),
                                             session_id |-> sid,
                                             metrics |-> <<Metric("latency", Number(0))>>,
                                             timestamp |-> now])
    /\ UNCHANGED <<api_pc, chat_session, chat_response, api_limit, experiments,
                   last_call, ab_ops, ab_limit, breakerVars, cacheVars, routerVars,
                   graphVars, retryVars, sessionVars, now>>

\* ------------------------------------------------ components left alone

SvcIdle ==
    /\ RouterIdle
    /\ GraphIdle
    /\ RetryIdle
    /\ SessionIdle
    /\ ApiIdle

CacheStart ==
    /\ BreakerIdle
    /\ ABIdle
    /\ SvcIdle
    /\ CacheInit
    /\ ~enable_semantic
    /\ ops_limit = MaxOps
    /\ now = 0

\* A cache in either mode, with or without a working embedding collaborator
SemanticStart ==
    /\ BreakerIdle
    /\ ABIdle
    /\ SvcIdle
    /\ CacheInit
    /\ ops_limit = MaxSemanticOps
    /\ now = 0

CacheNext ==
    \/ Tick
    \/ \E q \in Queries, emb \in EmbOutcomes : Get(q, emb)
    \/ \E q \in Queries, t \in TtlArgs, emb \in EmbOutcomes : Set(q, t, emb)
    \/ \E q \in Queries : Invalidate(q)
    \/ Clear

CacheSpec == CacheStart /\ [][CacheNext]_vars

SemanticSpec == SemanticStart /\ [][CacheNext]_vars

\* Longer runs of a cache of one entry in semantic mode whose embedding
\* collaborator works, on two queries with similar embeddings, set with the
\* default ttl
LongQueries == { <<"a">>, <<"b">> }

LongTtlArgs == {None}

SemanticLongStart ==
    /\ BreakerIdle
    /\ ABIdle
    /\ SvcIdle
    /\ CacheInit
    /\ enable_semantic
    /\ embeddings_available
    /\ max_size = 1
    /\ ops_limit = MaxLongOps
    /\ now = 0

SemanticLongNext ==
    \/ Tick
    \/ \E q \in LongQueries : Get(q, "ok")
    \/ \E q \in LongQueries, t \in LongTtlArgs : Set(q, t, "ok")
    \/ \E q \in LongQueries : Invalidate(q)
    \/ Clear

SemanticLongSpec == SemanticLongStart /\ [][SemanticLongNext]_vars

\* ------------------------------------------------- the eviction's runs

\* Distinct queries: query i is i times the letter x
QueryOf(i) == [j \in 1..i |-> "x"]

\* The exact store after sets of the queries 1..n at times 0 and 1 (the first
\* old of them at time 0) and one get of each of the first hit of them
StoreOf(n, hit, old) ==
    [i \in 1..n |->
        [key |-> get_hash(QueryOf(i)),
         entry |-> [id |-> i, query |-> QueryOf(i), response |-> Payload(i),
                    embedding |-> None, created_at |-> IF i <= old THEN 0 ELSE 1,
                    hits |-> IF i <= hit THEN 1 ELSE 0,
                    ttl |-> EffectiveTtl(None, cache_ttl), ttl_arg |-> None]]]

\* The sizes of the stores: small ones, and those around MaxEntries
StoreSizes == {1, 2, MaxEntries - 2, MaxEntries - 1, MaxEntries}

\* The queries set: the first and a middle one of the store, and a new one
SetQueries == { QueryOf(1), QueryOf(MaxEntries \div 2), QueryOf(MaxEntries + 1) }

\* An exact-match cache holding n entries, at or just below its max_size
EvictStart ==
    /\ BreakerIdle
    /\ ABIdle
    /\ SvcIdle
    /\ cache_ttl = DefaultTtl
    /\ enable_semantic = FALSE
    /\ embeddings_available = TRUE
    /\ embeddings_loaded = FALSE
    /\ semantic_cache = <<>>
    /\ last_get = [query |-> None, result |-> None]
    /\ last_set = NoSet
    /\ ops = 0
    /\ ops_limit = 1
    /\ now = 1
    /\ \E n \in StoreSizes :
           /\ max_size \in {n, n + 1}
           /\ \E hit \in 0..n, old \in 0..n : exact_cache = StoreOf(n, hit, old)
           /\ cache_stats = [hits |-> Cardinality({i \in 1..n : exact_cache[i].entry.hits = 1}),
                             misses |-> 0, semantic_hits |-> 0]
           /\ next_id = n + 1
           /\ ever_set = { QueryOf(i) : i \in 1..n }
           /\ set_since_clear = { QueryOf(i) : i \in 1..n }

\* One set, of a stored query or of a new one
EvictNext ==
    \E query \in SetQueries : Set(query, None, "ok")

EvictSpec == EvictStart /\ [][EvictNext]_vars

\* ------------------------------------------- the experiment manager's runs

ABStart ==
    /\ BreakerIdle
    /\ CacheIdle
    /\ SvcIdle
    /\ ABInit
    /\ ab_limit = MaxABOps
    /\ now = 0

ABNext ==
    \/ Tick
    \/ \E n \in CallNames, w \in WeightMappings, d \in Descriptions :
           CreateExperiment(n, w, d)
    \/ \E n \in CallNames, w \in WeightMappings : UpdateTraffic(n, w)
    \/ \E n \in CallNames, e \in BOOLEAN : EnableExperiment(n, e)
    \/ \E n \in CallNames, s \in Sessions : GetVariant(n, s)
    \/ \E n \in CallNames, s \in Sessions, m \in MetricMaps : RecordResult(n, s, m)

ABSpec == ABStart /\ [][ABNext]_vars

\* ------------------------------------------- the traffic split's runs

\* Sessions with a low and with a high bucket
TrafficSessions == {"s1", "s398"}

\* Variants dicts with a variant of weight 0: sums of 1.0, and a sum of 0.995,
\* which is within the tolerance of the weight check
TrafficMappings ==
    { <<Variant("A", Num(One)), Variant("B", Num(0))>>,
      <<Variant("A", Num(0)), Variant("B", Num(One))>>,
      <<Variant("A", Num(9950)), Variant("B", Num(0))>> }

TrafficNext ==
    \/ Tick
    \/ \E n \in CallNames, w \in TrafficMappings, d \in Descriptions :
           CreateExperiment(n, w, d)
    \/ \E n \in CallNames, w \in TrafficMappings : UpdateTraffic(n, w)
    \/ \E n \in CallNames, s \in TrafficSessions : GetVariant(n, s)

TrafficSpec == ABStart /\ [][TrafficNext]_vars

\* ------------------------------------------------- the router's runs

RouterStart ==
    /\ BreakerIdle
    /\ CacheIdle
    /\ ABIdle
    /\ RouterInit
    /\ router_limit = MaxRouterOps
    /\ GraphIdle
    /\ RetryIdle
    /\ SessionIdle
    /\ ApiIdle
    /\ now = 0

RouterNext ==
    \/ \E arg \in ProviderArgs : GetLLM(arg)
    \/ GetPrimary
    \/ GetFallback
    \/ SwitchToFallback
    \/ SwitchToPrimary
    \/ GetLLMWithFallback

RouterSpec == RouterStart /\ [][RouterNext]_vars

\* ------------------------------------------------- the graph's runs

GraphStart ==
    /\ BreakerIdle
    /\ CacheIdle
    /\ ABIdle
    /\ RouterInit
    /\ router_limit = 0
    /\ GraphInit
    /\ request_limit = MaxRequests
    /\ RetryIdle
    /\ SessionIdle
    /\ ApiIdle
    /\ now = 0

GraphNext ==
    \/ Invoke
    \/ \E content \in ClassifierTexts : SupervisorNode(content)
    \/ SupervisorNodeFails
    \/ \E ok \in BOOLEAN : AgentNode(ok)
    \/ Return

GraphSpec == GraphStart /\ [][GraphNext]_vars

\* ------------------------------------------------- with_retry's runs

RetryStart ==
    /\ BreakerIdle
    /\ CacheIdle
    /\ ABIdle
    /\ RouterIdle
    /\ GraphIdle
    /\ RetryInit
    /\ SessionIdle
    /\ ApiIdle
    /\ now = 0

RetryNext ==
    \/ RetryCall
    \/ \E outcome \in AttemptOutcomes : Attempt(outcome)
    \/ RaiseLast

\* The wrapper runs to its end: every invocation of func returns or raises
RetrySpec == RetryStart /\ [][RetryNext]_vars /\ WF_vars(RetryNext)

\* ------------------------------------------------- the session manager's runs

SessionStart ==
    /\ BreakerIdle
    /\ CacheIdle
    /\ ABIdle
    /\ RouterIdle
    /\ GraphIdle
    /\ RetryIdle
    /\ SessionInit
    /\ session_limit = MaxSessionOps
    /\ ApiIdle
    /\ now = 0

SessionNext ==
    \/ Tick
    \/ \E sid \in SessionIds, role \in Roles : AddMessage(sid, role)
    \/ \E sid \in SessionIds : GetChatHistory(sid)
    \/ \E sid \in SessionIds : DeleteSession(sid)

SessionSpec == SessionStart /\ [][SessionNext]_vars

\* ------------------------------------------------- the endpoints' runs

\* Both applications as main.py and stream.py build them, under settings with
\* or without credentials
ApiStart ==
    /\ BreakerIdle
    /\ CacheIdle
    /\ ABIdle
    /\ RouterInit
    /\ router_limit = 0
    /\ GraphInit
    /\ request_limit = 0
    /\ RetryIdle
    /\ max_history = AppMaxHistory
    /\ session_ttl = AppSessionTtl
    /\ sessions = [s \in SessionIds |-> NoSession]
    /\ next_msg = 1
    /\ last_session_call = NoSessionCall
    /\ session_ops = 0
    /\ session_limit = 0
    /\ ApiInit
    /\ api_limit = MaxApiOps
    /\ now = 0

ApiNext ==
    \/ Tick
    \/ \E sid \in ApiSessions : ChatBegin(sid)
    \/ \E content \in ClassifierTexts : SupervisorNode(content)
    \/ SupervisorNodeFails
    \/ \E ok \in BOOLEAN : AgentNode(ok)
    \/ Return
    \/ ChatRespond
    \/ ChatError
    \/ \E sid \in ApiSessions, outcome \in StreamOutcomes : StreamChat(sid, outcome)

ApiSpec == ApiStart /\ [][ApiNext]_vars

\* ------------------------------------------------- the breaker's runs

Init ==
    /\ BreakerInit
    /\ CacheIdle
    /\ ABIdle
    /\ SvcIdle
    /\ now = 0

Next ==
    \/ Tick
    \/ StateQuery
    \/ Reset
    \/ \E p \in Callers : SyncCheck(p)
    \/ \E p \in Callers, ok \in BOOLEAN : SyncRun(p, ok)
    \/ \E p \in Callers : AsyncEnter(p)
    \/ \E p \in Callers : AsyncCheck(p)
    \/ \E p \in Callers : AsyncShortCircuit(p)
    \/ \E p \in Callers, ok \in BOOLEAN : AsyncOp(p, ok)
    \/ \E p \in Callers : AsyncLockRecord(p)
    \/ \E p \in Callers : AsyncRecordSuccess(p)
    \/ \E p \in Callers : AsyncRecordFailure(p)
    \/ \E p \in Callers : AsyncFailureOut(p)

Spec == Init /\ [][Next]_vars

\* ------------------------------------------------------ breaker properties

\* Time elapsed since the last recorded failure
Elapsed == now - breaker.stats.last_failure_time

\* The step records a failed call / a successful call
FailureRecorded == breaker'.stats.failure_count = breaker.stats.failure_count + 1
SuccessRecorded == breaker'.stats.success_count = breaker.stats.success_count + 1

\* The step is a state check made by a protected call of caller p
CheckStep(p) == SyncCheck(p) \/ AsyncCheck(p)

\* C1: in Closed every recorded failure adds one to the consecutive-failure
\* counter and the breaker is Open afterwards exactly when the counter has
\* reached failure_threshold (below the threshold it stays Closed); a recorded
\* success leaves it Closed with the counter back at 0.
C1_ThresholdOpens ==
    [][ breaker.state = CLOSED =>
          /\ FailureRecorded =>
                /\ breaker'.stats.consecutive_failures =
                       breaker.stats.consecutive_failures + 1
                /\ breaker'.stats.consecutive_failures < failure_threshold
                       => breaker'.state = CLOSED
                /\ breaker'.stats.consecutive_failures = failure_threshold
                       => breaker'.state = OPEN
                /\ breaker'.stats.consecutive_failures <= failure_threshold
          /\ SuccessRecorded =>
                /\ breaker'.stats.consecutive_failures = 0
                /\ breaker'.state = CLOSED ]_vars

\* C1 witness: threshold 2; a failure, a success that reset the counter, then
\* two failures in a row that opened the breaker
C1_Witness ==
    /\ failure_threshold = 2
    /\ breaker.state = OPEN
    /\ breaker.stats.success_count = 1
    /\ breaker.stats.failure_count = 3
    /\ breaker.stats.consecutive_failures = 2
    /\ Len(breaker.stats.state_changes) = 1

\* C2: a protected call whose state check read Open does not invoke func, and
\* ends with the fallback's result when a fallback is configured and with
\* CircuitOpenError when none is.
C2_OpenShortCircuits ==
    \A p \in Callers :
        (seen[p] = OPEN /\ pc[p] \in {"short", "idle"}) =>
            /\ ~invoked[p]
            /\ pc[p] = "idle" =>
                   result[p] = (IF fallback THEN "fallback" ELSE "CircuitOpenError")

\* C2 witness: with no fallback, a call made while Open ended in CircuitOpenError
\* and func had run only for the calls that tripped the breaker
C2_Witness ==
    \E p \in Callers :
        /\ ~fallback
        /\ pc[p] = "idle"
        /\ seen[p] = OPEN
        /\ result[p] = "CircuitOpenError"
        /\ breaker.state = OPEN
        /\ op_calls = breaker.stats.total_calls

\* C3: while the breaker is Open and less than recovery_timeout has elapsed
\* since the last recorded failure, every state query and call attempt reads
\* Open and no step but reset() leaves Open; a state check made when at least
\* recovery_timeout has elapsed reads Half-Open and leaves the breaker Half-Open
\* with the half-open trial counter at 0.
C3_OpenUntilTimeout ==
    [][ breaker.state = OPEN =>
          /\ \A p \in Callers : CheckStep(p) =>
                 seen'[p] = (IF Elapsed < recovery_timeout THEN OPEN ELSE HALF_OPEN)
          /\ (StateQuery \/ \E p \in Callers : CheckStep(p)) =>
                 IF Elapsed < recovery_timeout
                 THEN breaker'.state = OPEN
                 ELSE breaker'.state = HALF_OPEN /\ breaker'.half_open_calls = 0
          /\ (Elapsed < recovery_timeout /\ ~Reset) => breaker'.state = OPEN ]_vars

\* C3 witness: one caller was short-circuited while Open, and a later check,
\* made once recovery_timeout had elapsed, read Half-Open with the counter at 0
C3_Witness ==
    \E p, q \in Callers :
        /\ seen[p] = OPEN /\ pc[p] = "idle" /\ result[p] # "none"
        /\ seen[q] = HALF_OPEN /\ pc[q] = "op"
        /\ breaker.state = HALF_OPEN
        /\ breaker.half_open_calls = 0
        /\ Elapsed >= recovery_timeout

FreshBreaker ==
    [state |-> "closed",
     stats |-> [total_calls |-> 0, success_count |-> 0, failure_count |-> 0,
                consecutive_failures |-> 0, last_failure_time |-> 0,
                state_changes |-> <<>>],
     half_open_calls |-> 0]

\* C5: a new breaker is Closed with all counters and statistics zero, and
\* reset() in any state puts the breaker back into exactly that condition.
C5_ResetRestoresInitial ==
    /\ breaker = FreshBreaker
    /\ [][Reset => breaker' = FreshBreaker]_vars

\* C5 witness: the breaker had opened (a call was short-circuited) and is in
\* its initial condition again, which only reset() brings about
C5_Witness ==
    /\ breaker = FreshBreaker
    /\ op_calls > 0
    /\ \E p \in Callers : seen[p] = OPEN /\ pc[p] = "idle" /\ result[p] # "none"

\* C6: breaker transitions are linearizable. When calls run one at a time a call
\* is recorded only if its state check did not read Open and nothing changes the
\* breaker between a call's check and its recording, so no outcome is ever
\* recorded while the stored state is Open.
C6_NoRecordWhileOpen ==
    [][ (FailureRecorded \/ SuccessRecorded) => breaker.state # OPEN ]_vars

\* C7: between entering Half-Open and leaving it at most half_open_max_calls
\* calls are admitted to func.
C7_HalfOpenAdmissionBound == half_open_admitted <= half_open_max_calls

\* C8: the lock is not held by a caller whose func or fallback is executing, or
\* that waits to record: it is held only during the state check and the
\* recording of the outcome.
C8_LockNotHeldAcrossCall ==
    \A p \in Callers :
        pc[p] \in {"op", "short", "ok_wait", "fail_wait", "fail_out", "sync_op", "idle"}
            => lock # p

\* C8 witness: while func is executing for one caller, another caller holds the
\* lock for its own state check
C8_Witness ==
    \E p, q \in Callers : pc[p] = "op" /\ lock = q /\ pc[q] = "check"

\* C36: whenever the stored state is Closed, the consecutive failures are fewer
\* than failure_threshold
C36_ClosedBelowThreshold ==
    breaker.state = CLOSED => breaker.stats.consecutive_failures < failure_threshold

\* C36 witness: the breaker has opened, recovered and closed again, and has
\* since recorded a failure that is one short of the threshold
C36_Witness ==
    /\ breaker.state = CLOSED
    /\ failure_threshold = 2
    /\ breaker.stats.consecutive_failures = 1
    /\ Len(breaker.stats.state_changes) = 3

\* The steps of a call that is short-circuited: a state check that reads Open,
\* and the fallback or CircuitOpenError that follows it
ShortCircuitStep ==
    \/ \E p \in Callers : SyncCheck(p) /\ breaker'.state = OPEN
    \/ \E p \in Callers : AsyncCheck(p) /\ breaker'.state = OPEN
    \/ \E p \in Callers : AsyncShortCircuit(p)

\* C37: a call short-circuited while Open leaves the statistics (the three
\* call counts, the consecutive failures, the last-failure time and the
\* transition log) and the state as they are, and in every state total_calls
\* is success_count + failure_count
C37_StatsCountExecutedCalls ==
    /\ [](breaker.stats.total_calls
              = breaker.stats.success_count + breaker.stats.failure_count)
    /\ [][ ShortCircuitStep => breaker' = breaker ]_vars

\* C37 witness: a caller has been turned away by the open breaker without its
\* func being invoked, after calls that succeeded and calls that failed
C37_Witness ==
    \E p \in Callers :
        /\ pc[p] = "idle"
        /\ result[p] \in {"fallback", "CircuitOpenError"}
        /\ ~invoked[p]
        /\ breaker.state = OPEN
        /\ breaker.stats.success_count >= 1
        /\ breaker.stats.failure_count >= 1

\* A step that records one failure: the failure counts go up by one, the
\* last-failure time is the time of the step, and the breaker opens when it was
\* Half-Open or was Closed and the threshold is reached
FailureApplied ==
    LET failures == breaker.stats.consecutive_failures + 1
        due == \/ breaker.state = HALF_OPEN
               \/ breaker.state = CLOSED /\ failures >= failure_threshold
    IN  /\ breaker'.stats.consecutive_failures = failures
        /\ breaker'.stats.failure_count = breaker.stats.failure_count + 1
        /\ breaker'.stats.last_failure_time = now
        /\ breaker'.state = IF due THEN OPEN ELSE breaker.state
        /\ Len(breaker'.stats.state_changes)
               = Len(breaker.stats.state_changes) + (IF due THEN 1 ELSE 0)

\* C38: when func raises in a call that was let through (the breaker was Closed
\* or Half-Open at its state check), the failure is recorded first, and the
\* call then ends with the fallback's result when a fallback is configured and
\* with the exception only when none is
C38_FailureRecordedThenFallback ==
    [][ \A p \in Callers :
          /\ SyncRun(p, FALSE) =>
                 /\ FailureApplied
                 /\ result'[p] = IF fallback THEN "fallback" ELSE "error"
          /\ AsyncRecordFailure(p) =>
                 /\ FailureApplied
                 /\ pc'[p] = "fail_out"
          /\ (pc[p] = "fail_out" /\ pc'[p] # "fail_out") =>
                 /\ breaker' = breaker
                 /\ result'[p] = IF fallback THEN "fallback" ELSE "error" ]_vars

\* C38 witness: with a fallback configured, a call let through in Half-Open
\* raised; the breaker is open again and the call returned the fallback's result
C38_Witness ==
    \E p \in Callers :
        /\ fallback
        /\ pc[p] = "idle"
        /\ invoked[p]
        /\ seen[p] = HALF_OPEN
        /\ result[p] = "fallback"
        /\ breaker.state = OPEN
        /\ breaker.stats.last_failure_time = now
        /\ Len(breaker.stats.state_changes) = 3

\* ------------------------------------------------ properties of the cache

\* Normalization of a query as the claims name it: trimmed and case-folded
Normalize(q) == Lower(Strip(q))

\* The cosine of the angle between u and v is at least the similarity threshold
Similar(u, v) ==
    /\ Dot(u, u) > 0
    /\ Dot(v, v) > 0
    /\ Dot(u, v) >= 0
    /\ 100 * 100 * Dot(u, v) * Dot(u, v)
           >= SimilarityThresholdPct * SimilarityThresholdPct * Dot(u, u) * Dot(v, v)

\* The last call was set(s, r) at the present time, with s the same query as q
\* after normalization
JustSet(q) ==
    /\ last_set # NoSet
    /\ last_set.at = now
    /\ Normalize(last_set.query) = Normalize(q)

\* No set call was ever made for a query that normalizes to the same as q
NeverSet(q) == \A s \in ever_set : Normalize(s) # Normalize(q)

\* C9 as stated: set(q, r) followed by get(q') with q' the same as q after
\* normalization returns exactly r, and get on a query that was never set
\* returns a miss (None).
C9_UnseenQueryMisses ==
    [][ \A q \in Queries, emb \in EmbOutcomes : Get(q, emb) =>
            /\ JustSet(q) => last_get'.result = Payload(next_id - 1)
            /\ NeverSet(q) => last_get'.result = None ]_vars

\* C9 amended: set(q, r) followed by get(q') with q' the same as q after
\* normalization returns exactly r; get on a query that was never set returns a
\* miss (None), or, in semantic mode, the response of a stored unexpired entry
\* whose embedding is within the similarity threshold of the query's embedding.
C9_SetThenGet ==
    [][ \A q \in Queries, emb \in EmbOutcomes : Get(q, emb) =>
            /\ JustSet(q) => last_get'.result = Payload(next_id - 1)
            /\ NeverSet(q) =>
                   \/ last_get'.result = None
                   \/ /\ enable_semantic
                      /\ emb = "ok"
                      /\ \E i \in 1..Len(semantic_cache) :
                             /\ now - semantic_cache[i].created_at <= semantic_cache[i].ttl
                             /\ semantic_cache[i].embedding # None
                             /\ Similar(embed_query(q), semantic_cache[i].embedding)
                             /\ last_get'.result = semantic_cache[i].response ]_vars

\* C9 witness: set("a", r) was the only set call and the get(" A ") that followed
\* it at once returned r
C9_Witness ==
    /\ ever_set = {<<"a">>}
    /\ next_id = 2
    /\ ops = 2
    /\ last_get = [query |-> <<" ", "A", " ">>, result |-> Payload(1)]
    /\ cache_stats.hits = 1

\* C10 as stated: an entry inserted with set(q, r, ttl=t) is a miss when get(q)
\* is called more than t time units after the insertion, for every ttl value t
\* passed by the caller.
C10_ExpiredAfterTtl ==
    [][ \A q \in Queries, emb \in EmbOutcomes : Get(q, emb) =>
            \A i \in 1..Len(exact_cache) :
                ( /\ exact_cache[i].key = get_hash(q)
                  /\ exact_cache[i].entry.ttl_arg # None
                  /\ now - exact_cache[i].entry.created_at > exact_cache[i].entry.ttl_arg[1] )
                    => last_get'.result = None ]_vars

\* The entries held by the cache, in its exact store or in its semantic list
HeldIds ==
    {exact_cache[i].entry.id : i \in 1..Len(exact_cache)}
        \cup {semantic_cache[i].id : i \in 1..Len(semantic_cache)}

SetStep == \E q \in Queries, t \in TtlArgs, emb \in EmbOutcomes : Set(q, t, emb)

GetStep == \E q \in Queries, emb \in EmbOutcomes : Get(q, emb)

\* C11 as stated: after every set, whatever calls came before and whatever
\* max_size is, the cache holds no more than max_size entries.
C11_SizeBounded == [][ SetStep => Cardinality(HeldIds') <= max_size ]_vars

\* C12 as stated: an entry destroyed by invalidate (or by eviction) cannot be
\* returned by any lookup path until its query is set again, so a response that
\* get returns is the response of an entry whose key is in the exact store
\* when get is called: it was neither invalidated nor evicted since its query
\* was last set.
C12_DestroyedNotReturned ==
    [][ GetStep =>
            \A j \in 1..Len(semantic_cache) :
                semantic_cache[j].response = last_get'.result =>
                    \E i \in 1..Len(exact_cache) :
                        exact_cache[i].key = Normalize(semantic_cache[j].query) ]_vars

\* Some set call was made for a query that normalizes to the same as q, and
\* none since the last clear
ClearedAway(q) ==
    /\ ~NeverSet(q)
    /\ \A s \in set_since_clear : Normalize(s) # Normalize(q)

\* C13 as stated: after clear() the cache holds no entries (size 0, exact and
\* semantic structures empty) and get of every previously stored query is a
\* miss until it is set again.
C13_ClearedUntilSetAgain ==
    [][ /\ Clear => /\ exact_cache' = <<>>
                    /\ semantic_cache' = <<>>
                    /\ get_stats'.size = 0
        /\ \A q \in Queries, emb \in EmbOutcomes :
               Get(q, emb) /\ ClearedAway(q) => last_get'.result = None ]_vars

\* C13 amended: after clear() the cache holds no entries (size 0, exact and
\* semantic structures empty); get of a previously stored query that was not
\* set again is a miss, or, in semantic mode, returns the response of an entry
\* set after the clear whose embedding is within the similarity threshold of the
\* query's embedding.
C13_ClearEmpties ==
    [][ /\ Clear => /\ exact_cache' = <<>>
                    /\ semantic_cache' = <<>>
                    /\ get_stats'.size = 0
        /\ \A q \in Queries, emb \in EmbOutcomes :
               Get(q, emb) /\ ClearedAway(q) =>
                   \/ last_get'.result = None
                   \/ /\ enable_semantic
                      /\ \E i \in 1..Len(semantic_cache) :
                             /\ semantic_cache[i].query \in set_since_clear
                             /\ semantic_cache[i].embedding # None
                             /\ Similar(embed_query(q), semantic_cache[i].embedding)
                             /\ last_get'.result = semantic_cache[i].response ]_vars

\* C13 witness: "a" was set, the cache was cleared, and the get("a") that
\* followed missed on an empty cache
C13_Witness ==
    /\ ever_set = {<<"a">>}
    /\ set_since_clear = {}
    /\ ops = 3
    /\ last_get = [query |-> <<"a">>, result |-> None]
    /\ cache_stats.misses = 1
    /\ exact_cache = <<>>
    /\ semantic_cache = <<>>

C32_SweptAfterGetAndSet ==
    [][ (GetStep \/ SetStep) =>
            /\ \A i \in 1..Len(exact_cache') :
                   now' - exact_cache'[i].entry.created_at <= exact_cache'[i].entry.ttl
            /\ \A i \in 1..Len(semantic_cache') :
                   now' - semantic_cache'[i].created_at <= semantic_cache'[i].ttl ]_vars

\* ------------------------------------ properties of the experiment manager

\* A sum of weights within 0.01 of 1.0
WithinTolerance(total) == ~total.nan /\ AbsDiff(total.val, One) <= Tolerance

CreateStep(n) ==
    \E w \in WeightMappings, d \in Descriptions : CreateExperiment(n, w, d)

UpdateStep(n) == \E w \in WeightMappings : UpdateTraffic(n, w)

\* C15 as stated: create_experiment and update_traffic reject every weight
\* mapping whose sum is not within 0.01 of 1.0 and leave the stored experiments
\* unchanged when they do, so the weights of every stored experiment sum to 1.0
\* within 0.01.
C15_WeightsSumToOne ==
    /\ [][ \A n \in CallNames, w \in WeightMappings :
               ( /\ (\E d \in Descriptions : CreateExperiment(n, w, d))
                        \/ UpdateTraffic(n, w)
                 /\ ~WithinTolerance(total_weight(w)) )
                   => /\ last_call'.outcome = "ValueError"
                      /\ experiments' = experiments ]_vars
    /\ [](\A n \in ExpNames :
              experiments[n].present
                  => WithinTolerance(total_weight(experiments[n].variants)))

\* C16 as stated: create_experiment with a name that already exists is rejected
\* and leaves the existing experiment unchanged; the weights of an existing
\* experiment change only through update_traffic.
C16_NoRecreation ==
    [][ \A n \in CallNames :
            /\ CreateStep(n) /\ experiments[n].present
                   => /\ last_call'.outcome = "ValueError"
                      /\ experiments'[n] = experiments[n]
            /\ ( /\ experiments[n].present
                 /\ experiments'[n].present
                 /\ experiments'[n].variants # experiments[n].variants )
                   => UpdateStep(n) ]_vars

\* The weights of experiment e as a mapping from variant to weight
WeightsOf(e) ==
    IF experiments[e].present
    THEN {<<experiments[e].variants[i].name, experiments[e].variants[i].weight>> :
              i \in 1..Len(experiments[e].variants)}
    ELSE {}

Recorded(n, v) ==
    {i \in 1..Len(results) : results[i].experiment_name = n /\ results[i].variant = v}

RecordedFor(n) == {i \in 1..Len(results) : results[i].experiment_name = n}

\* The variant names a result can carry
VariantNames == {"A", "B", "dashscope", "openai", "default"}

\* The count a report gives for variant v: none when the report is an error
\* report or does not list v
ReportedCount(report, v) ==
    IF report.error THEN 0
    ELSE IF v \in DOMAIN report.variants THEN report.variants[v].count
    ELSE 0

RECURSIVE SumOver(_, _)
SumOver(report, vs) ==
    IF vs = {} THEN 0
    ELSE LET v == CHOOSE v \in vs : TRUE
         IN  ReportedCount(report, v) + SumOver(report, vs \ {v})

\* C19 as stated: whatever results were recorded, get_experiment_stats(name)
\* reports for each variant v a count equal to the number of results recorded
\* for that experiment whose resolved variant is v, and the counts sum to the
\* number of results recorded for that experiment.
C19_CountsMatchResults ==
    \A n \in CallNames :
        /\ \A v \in VariantNames :
               ReportedCount(get_experiment_stats(n), v) = Cardinality(Recorded(n, v))
        /\ SumOver(get_experiment_stats(n), VariantNames) = Cardinality(RecordedFor(n))

\* C19 amended: for an experiment that exists, get_experiment_stats(name) lists
\* exactly the variants that have at least one recorded result, each with a
\* count equal to the number of results recorded for that experiment whose
\* resolved variant is v, and the counts sum to the number of results recorded
\* for that experiment; for a name that is not an experiment it reports an error
\* and no counts, whatever results were recorded under that name.
C19_CountsOfExistingExperiment ==
    \A n \in CallNames :
        IF experiments[n].present
        THEN /\ ~get_experiment_stats(n).error
             /\ DOMAIN get_experiment_stats(n).variants
                    = {v \in VariantNames : Recorded(n, v) # {}}
             /\ \A v \in VariantNames :
                    ReportedCount(get_experiment_stats(n), v)
                        = Cardinality(Recorded(n, v))
             /\ SumOver(get_experiment_stats(n), VariantNames)
                    = Cardinality(RecordedFor(n))
        ELSE get_experiment_stats(n) = [error |-> TRUE]

\* C19 witness: two results were recorded for llm_provider, both resolved to
\* dashscope, and the report counts 2
C19_Witness ==
    /\ Len(results) = 2
    /\ Cardinality(Recorded("llm_provider", "dashscope")) = 2
    /\ get_experiment_stats("llm_provider").variants["dashscope"].count = 2

\* The numeric values of key among the results rs, by position
NumericValues(rs, key) ==
    {<<i, ValueOf(rs[i].metrics, key)>> :
         i \in {j \in 1..Len(rs) : IsNumeric(rs[j].metrics, key)}}

RECURSIVE SumPairs(_)
SumPairs(ps) ==
    IF ps = {} THEN 0
    ELSE LET p == CHOOSE p \in ps : TRUE IN p[2] + SumPairs(ps \ {p})

\* C20 as stated: for every variant with results, get_experiment_stats reports
\* avg, min and max for every metric key that has a numeric value in some result
\* of the variant, computed over exactly the numeric values of that key, whatever
\* keys the first recorded result has.
C20_EveryNumericKeyReported ==
    \A n \in CallNames :
        experiments[n].present =>
            \A v \in DOMAIN get_experiment_stats(n).variants, k \in MetricKeys :
                LET rs == SelectSeq(results,
                              LAMBDA r : r.experiment_name = n /\ r.variant = v)
                    ps == NumericValues(rs, k)
                    rep == get_experiment_stats(n).variants[v].metrics
                IN  IF ps = {} THEN k \notin DOMAIN rep
                    ELSE /\ k \in DOMAIN rep
                         /\ rep[k].min \in {p[2] : p \in ps}
                         /\ rep[k].max \in {p[2] : p \in ps}
                         /\ \A p \in ps : rep[k].min <= p[2] /\ p[2] <= rep[k].max
                         /\ 2 * AbsDiff(rep[k].avg * Cardinality(ps), 1000 * SumPairs(ps))
                                <= Cardinality(ps)

RecordStep ==
    \E n \in CallNames, x \in Sessions, m \in MetricMaps : RecordResult(n, x, m)

\* The positions of a variants dict whose cumulative weight exceeds the bucket
Exceeding(variants, bucket) ==
    { i \in 1..Len(variants) : FLess(Num(bucket), SumWeights(variants, i)) }

\* C33: for a known, enabled experiment get_variant returns the first variant,
\* in declared order, whose cumulative weight exceeds the bucket of the name
\* and the session, and the last variant only when no cumulative weight
\* exceeds it; the result is one of the experiment's declared variants.
C33_FirstExceedingVariant ==
    [][ \A n \in CallNames, s \in Sessions :
            (GetVariant(n, s) /\ experiments[n].present /\ experiments[n].enabled) =>
                LET variants == experiments[n].variants
                    over     == Exceeding(variants, Bucket(n, s))
                    picked   == IF over = {} THEN Len(variants)
                                ELSE CHOOSE i \in over : \A j \in over : i <= j
                IN  /\ last_call'.outcome = variants[picked].name
                    /\ \E i \in 1..Len(variants) :
                           last_call'.outcome = variants[i].name ]_vars

\* C33 witness: session s3 asked for its variant of rollout, created with A at
\* 0.3 and B at 0.7; the bucket 0.6903 passes A and B is returned
C33_Witness ==
    /\ last_call.op = "get_variant"
    /\ last_call.name = "rollout"
    /\ last_call.session = "s3"
    /\ experiments["rollout"].present
    /\ experiments["rollout"].enabled
    /\ experiments["rollout"].variants = <<Variant("A", Num(3000)), Variant("B", Num(7000))>>
    /\ last_call.outcome = "B"

\* C40: for an enabled experiment, whose weights have passed the weight check,
\* get_variant never returns a variant of weight 0
C40_NoZeroWeightVariant ==
    [][ \A n \in CallNames, s \in TrafficSessions :
            (GetVariant(n, s) /\ experiments[n].present /\ experiments[n].enabled) =>
                \A i \in 1..Len(experiments[n].variants) :
                    experiments[n].variants[i].name = last_call'.outcome =>
                        experiments[n].variants[i].weight # Num(0) ]_vars

\* C21: the result log is append-only. record_result appends exactly one record,
\* which carries the variant resolved at that time; every other step leaves the
\* log as it is, so no record is ever removed, reordered or altered, whatever
\* happens to the experiment later.
C21_LogAppendOnly ==
    [][ IF RecordStep
        THEN /\ Len(results') = Len(results) + 1
             /\ SubSeq(results', 1, Len(results)) = results
             /\ results'[Len(results')].variant
                    = get_variant(results'[Len(results')].experiment_name,
                                  results'[Len(results')].session_id)
        ELSE results' = results ]_vars

\* C21 witness: a result recorded for rollout before the experiment existed
\* keeps the variant resolved then, although get_variant now resolves the same
\* session to a variant of the experiment created since
C21_Witness ==
    /\ Len(results) = 1
    /\ results[1].experiment_name = "rollout"
    /\ results[1].variant = "default"
    /\ experiments["rollout"].present
    /\ get_variant("rollout", results[1].session_id) # "default"

\* ------------------------------------------------ properties of the eviction

\* Entry j of the store is lower than entry i in (hit_count, creation_time)
LowerEntry(j, i) ==
    \/ exact_cache[j].entry.hits < exact_cache[i].entry.hits
    \/ /\ exact_cache[j].entry.hits = exact_cache[i].entry.hits
       /\ exact_cache[j].entry.created_at < exact_cache[i].entry.created_at

\* L is a set of count lowest entries of the store
LowestEntries(L, count) ==
    /\ Cardinality(L) = count
    /\ \A i \in L, j \in (1..Len(exact_cache)) \ L : ~LowerEntry(j, i)

\* The entries a set of query leaves out of the store, its own key aside
GoneAfterSet(query) ==
    { i \in 1..Len(exact_cache) :
        /\ exact_cache[i].key # Normalize(query)
        /\ \A k \in 1..Len(exact_cache') :
               exact_cache'[k].entry.id # exact_cache[i].entry.id }

\* The entry stored under the key of query before the set, if any
OwnEntry(query) ==
    { i \in 1..Len(exact_cache) : exact_cache[i].key = Normalize(query) }

\* C31: a set that finds n entries, n at or above max_size, evicts
\* max(1, n div 10) of them before it inserts, and they are lowest in
\* (hit_count, creation_time); a set that finds the store below max_size
\* evicts nothing
C31_EvictsLowestTenth ==
    [][ \A query \in SetQueries :
          Set(query, None, "ok") =>
              LET n == Len(exact_cache)
                  count == IF n \div 10 >= 1 THEN n \div 10 ELSE 1
              IN  IF n >= max_size
                  THEN \/ LowestEntries(GoneAfterSet(query), count)
                       \/ LowestEntries(GoneAfterSet(query) \cup OwnEntry(query), count)
                  ELSE GoneAfterSet(query) = {} ]_vars

\* A set found 21 entries in a full store, the 15 older ones hit: the two
\* oldest of the entries never hit are gone
C31_Witness ==
    /\ ops = 1
    /\ max_size = 21
    /\ Len(exact_cache) = 20
    /\ exact_cache[15].entry.id = 15
    /\ exact_cache[16].entry.id = 18
    /\ exact_cache[20].entry.id = 22

\* ------------------------------------------------ properties of the router

\* The provider a get_llm call is for: its argument, or the active provider
\* when no argument is given
ClaimedTarget(arg) == IF arg.given THEN arg.name ELSE active_provider

\* C22: get_llm(provider) raises the configuration error when the target (the
\* argument, or the active provider when none is given) is unknown or has no
\* credential, returns a handle for exactly the target otherwise, and never
\* changes the active provider or the fallback flag
C22_ErrorOrTargetHandle ==
    [][ \A arg \in ProviderArgs :
          GetLLM(arg) =>
              /\ last_router'.outcome =
                     IF \/ ClaimedTarget(arg) \notin ProviderNames
                        \/ ~api_keys[ClaimedTarget(arg)]
                     THEN ValueError
                     ELSE Handle(ClaimedTarget(arg))
              /\ active_provider' = active_provider
              /\ fallback_used' = fallback_used ]_vars


\* The configured providers, other than the default, that have a credential
Credentialed == SelectSeq(Providers, LAMBDA p : p # llm_provider /\ api_keys[p])

\* C23: switch_to_fallback makes the first credentialed provider other than
\* the default the active one and raises the fallback flag in the same step,
\* or returns None and changes nothing when there is none; switch_to_primary
\* makes the default the active provider and lowers the flag
C23_Switches ==
    [][ /\ SwitchToFallback =>
               IF Credentialed = <<>>
               THEN /\ last_router'.outcome = NoHandle
                    /\ active_provider' = active_provider
                    /\ fallback_used' = fallback_used
               ELSE /\ last_router'.outcome = Handle(Head(Credentialed))
                    /\ active_provider' = Head(Credentialed)
                    /\ fallback_used' = TRUE
        /\ SwitchToPrimary =>
               /\ active_provider' = llm_provider
               /\ fallback_used' = FALSE ]_vars

\* The router has just switched from the default dashscope to openai
C23_Witness ==
    /\ last_router.op = "switch_to_fallback"
    /\ last_router.outcome = Handle("openai")
    /\ llm_provider = "dashscope"
    /\ active_provider = "openai"
    /\ fallback_used

\* C35: a switch that fails (switch_to_primary raising, switch_to_fallback
\* finding no fallback) leaves the active provider and the fallback flag as
\* they were before the call
C35_FailedSwitchChangesNothing ==
    [][ ((SwitchToFallback \/ SwitchToPrimary)
             /\ last_router'.outcome \in {ValueError, NoHandle}) =>
            /\ active_provider' = active_provider
            /\ fallback_used' = fallback_used ]_vars

\* C39: in every state of the router the fallback flag is set exactly when the
\* active provider is not the configured default
C39_FlagIffNotDefault == fallback_used <=> (active_provider # llm_provider)

\* C39 witness: the router has switched to openai, and a later get_primary
\* raised because the default dashscope has no credential
C39_Witness ==
    /\ last_router.op = "get_primary"
    /\ last_router.outcome = ValueError
    /\ llm_provider = "dashscope"
    /\ active_provider = "openai"
    /\ fallback_used

\* -------------------------------------------- properties of the workflow graph

\* C24: a failed primary call triggers switch_to_fallback before any error is
\* surfaced: when a credentialed fallback provider exists, the failed call
\* leaves the router on the fallback with the fallback flag raised, and the
\* call is made a second time
C24_FailedCallSwitches ==
    [][ (SupervisorNodeFails /\ Credentialed # <<>>) =>
            /\ active_provider' = Head(Credentialed)
            /\ fallback_used' = TRUE
            /\ llm_calls' = 2
            /\ g_pc' # "raised" ]_vars

\* The valid agents whose name is the response, blanks at its ends and case aside
ExactNames(content) ==
    { v \in ValidAgents : Lower(Strip(content)) = Lower(NameText(v)) }

\* C25: a response that is exactly the name of a valid agent, compared
\* case-insensitively, routes to that agent; every other response routes to
\* ChitchatAgent
C25_ExactMatchOrChitchat ==
    [][ \A content \in ClassifierTexts :
          SupervisorNode(content) =>
              graph_state'.current_agent =
                  IF ExactNames(content) # {}
                  THEN CHOOSE v \in ExactNames(content) : TRUE
                  ELSE "ChitchatAgent" ]_vars

\* The priority order of the handler identifiers
Priority == <<"ProductAgent", "OrderAgent", "AfterSalesAgent", "ChitchatAgent">>

\* The places in the priority order of the identifiers that occur in a response,
\* compared without regard to case
Occurring(content) ==
    { i \in 1..Len(Priority) :
          Contains(Lower(Strip(content)), Lower(NameText(Priority[i]))) }

\* C34: a response that contains one or more handler identifiers, in any case
\* and at any place, is classified as the identifier that comes first in the
\* order ProductAgent, OrderAgent, AfterSalesAgent, ChitchatAgent
C34_FirstInPriorityOrder ==
    [][ \A content \in ClassifierTexts :
          (SupervisorNode(content) /\ Occurring(content) # {}) =>
              graph_state'.current_agent =
                  Priority[CHOOSE i \in Occurring(content) :
                               \A j \in Occurring(content) : i <= j] ]_vars

\* C34 witness: the response names OrderAgent and then ProductAgent, and the
\* request is classified as ProductAgent
C34_Witness ==
    /\ g_pc = "routed"
    /\ classified = OrderAgentText \o <<" ">> \o ProductAgentText
    /\ graph_state.current_agent = "ProductAgent"

\* The order of the steps of a request
GraphOrder ==
    { <<"idle", "supervisor">>, <<"supervisor", "routed">>, <<"routed", "end">>,
      <<"end", "returned">>, <<"supervisor", "raised">>, <<"routed", "raised">>,
      <<"returned", "supervisor">>, <<"raised", "supervisor">> }

\* C26: a request runs the supervisor node once, then one agent node once, then
\* ends, with no way back; the agent resolved is always one of the valid
\* agents whatever the classifier answers
C26_OneHopEach ==
    /\ [](hops.supervisor <= 1 /\ hops.agent <= 1)
    /\ [](g_pc \in {"routed", "end", "returned"} =>
              graph_state.current_agent \in ValidAgents)
    /\ [](g_pc \in {"end", "returned"} =>
              /\ hops = [supervisor |-> 1, agent |-> 1]
              /\ handler_node \in { conditional_edges(v) : v \in ValidAgents })
    /\ [][ /\ g_pc' # g_pc => <<g_pc, g_pc'>> \in GraphOrder
           /\ hops'.agent > hops.agent => hops.supervisor = 1 ]_vars

\* A request whose classification named no agent was served by the default one
C26_Witness ==
    /\ g_pc = "returned"
    /\ ExactNames(classified) = {}
    /\ classified \in ClassifierTexts
    /\ ~Contains(Lower(classified), Lower(OrderAgentText))
    /\ graph_state.current_agent = "ChitchatAgent"
    /\ hops = [supervisor |-> 1, agent |-> 1]
    /\ requests = 2

\* C27: what invoke returns pairs the response with the agent that produced
\* it: agent_used is the agent resolved by the classification and message is
\* the reply of that agent
C27_OutputPairs ==
    [](g_pc = "returned" =>
           /\ ~graph_output.raised
           /\ graph_output.agent_used = route(classified)
           /\ graph_output.message = chat(graph_output.agent_used)
           /\ handler_node = conditional_edges(graph_output.agent_used))

\* A request classified as a product question returned the product agent's reply
C27_Witness ==
    /\ g_pc = "returned"
    /\ classified = ProductAgentText
    /\ graph_output = [raised |-> FALSE, message |-> "product reply",
                       agent_used |-> "ProductAgent"]

\* ------------------------------------------------ properties of with_retry

\* C28: the wrapped function is invoked at most max_retries + 1 times and the
\* call ends; it returns the result of the first invocation that succeeds, with
\* no invocation after it; after max_retries + 1 failures it raises the
\* exception of the last one; with exponential backoff the delay before retry k
\* is retry_delay * 2^(k-1), and no delay follows the last failure
C28_BoundedRetry ==
    /\ [](invocations <= max_retries + 1)
    /\ [](r_pc \in {"returned", "raised"} => retry_result.attempt = invocations)
    /\ [](r_pc = "raise" => invocations = max_retries + 1)
    /\ [](Len(delays) = IF r_pc \in {"idle", "loop"} THEN invocations
                        ELSE invocations - 1)
    /\ [](exponential_backoff =>
              \A k \in 1..Len(delays) : delays[k] = retry_delay * Pow2(k - 1))
    /\ [][ (r_pc \in {"returned", "raised"}) => invocations' = invocations ]_vars
    /\ (r_pc = "loop" ~> r_pc \in {"returned", "raised"})

\* Every invocation failed: four invocations, three delays, the fourth
\* exception raised
C28_Witness ==
    /\ r_pc = "raised"
    /\ max_retries = 3
    /\ invocations = 4
    /\ retry_delay = 3
    /\ delays = <<3, 6, 12>>
    /\ retry_result = [kind |-> "raised", attempt |-> 4]

\* ------------------------------------------- properties of the session manager

\* The tails of a history: what is left when its oldest messages are dropped
Tails(history) == { SubSeq(history, k, Len(history)) : k \in 1..(Len(history) + 1) }

\* C30: get_chat_history returns the messages of the session in the order they
\* were added (later messages have later contents here); a stored history never
\* has more than max_history messages, and add_message drops the oldest first;
\* after delete_session the history of the session is empty
C30_OrderedBoundedHistory ==
    /\ [](\A s \in SessionIds : Len(sessions[s].chat_history) <= max_history)
    /\ [][ \A s \in SessionIds :
             /\ (\E role \in Roles : AddMessage(s, role)) =>
                    LET history == sessions'[s].chat_history
                    IN  \/ history = <<>>
                        \/ /\ history[Len(history)].content = next_msg
                           /\ SubSeq(history, 1, Len(history) - 1)
                                  \in Tails(sessions[s].chat_history)
             /\ GetChatHistory(s) =>
                    LET returned == last_session_call'.returned
                    IN  \A i, j \in 1..Len(returned) :
                            i < j => returned[i].content < returned[j].content
             /\ DeleteSession(s) => sessions'[s].chat_history = <<>> ]_vars

\* ------------------------------------------------ properties of the endpoints

\* C29: when the backend fails for a request, the user gets the fixed message
\* for a degraded service and never the text of the exception, neither as the
\* response of chat nor as an event of the stream
C29_DegradedNotRaw ==
    /\ [](\A i \in 1..Len(stream_events) :
              stream_events[i].type = "error" =>
                  stream_events[i].message = DegradedMessage)
    /\ [](chat_response.status = "error" => chat_response.message = DegradedMessage)

====
